---- MODULE Spec2Model ----
(***************************************************************************)
(* Model of the voice-conditionals cache of chatterbox-onnx:               *)
(*   - VoiceConditionals::Save / Load  (the .cond blob format),            *)
(*   - VoiceConditionalsCache          (memory tier + disk tier),          *)
(*   - VoiceConditionalsCache::ExtractKey (key normalisation).            *)
(* Strings are sequences of one-character strings; files are sequences of  *)
(* bytes; a float is its 32-bit pattern and an int64 its 64-bit pattern.   *)
(***************************************************************************)
EXTENDS Integers, Sequences, FiniteSets, TLC

VARIABLES
    m_cache,    \* VoiceConditionalsCache::m_cache : key -> record, None if absent
    dirIsFile,  \* m_cacheDir names something that is not a directory
    dirExists,  \* fs::exists(m_cacheDir)
    disk,       \* contents of the file at GetCachePath(key), NoFile if absent
    origin,     \* per cache path: the record whose Save last wrote the file
    last,       \* the last call made on the cache and what it returned
    conds,      \* the record handed to the blob round trip
    cut,        \* bytes left of the blob file after a truncation, -1 if intact
    pathOrKey,  \* argument of ExtractKey
    key,        \* ExtractKey(pathOrKey), once computed
    rekey,      \* ExtractKey(key), once computed
    running,    \* per thread: the cache call it is inside, and how far
    seen,       \* per thread: what its last Get found, and who was writing
    m_sessions, \* OnnxSessionManager::m_sessions : name -> model path, NoSession
    slast,      \* the last LoadModel call and how it ended
    m_modelsLoaded, \* ChatterboxTTS::m_modelsLoaded
    m_conds,    \* ChatterboxTTS::m_conds
    m_dtype,    \* ChatterboxTTS::m_dtype : the variant LoadModels loaded last
    m_rng,      \* ChatterboxTTS::m_rng : the state of the generator
    m_lastError,    \* ChatterboxTTS::m_lastError
    gen,        \* the Generate call in progress or just ended: its locals
    firstRun,   \* the first seeded Generate call that reached the decoder
    elast,      \* the last call made on the engine and what it returned
    samp,       \* the logits under the sampling filters, and their inputs
    rv,         \* the ResolveVoice call in progress or just ended
    dm,         \* DownloadManager: its downloads, callbacks and files
    md          \* ModelDownloader: the download in progress and the local file

vars == <<m_cache, dirIsFile, dirExists, disk, origin, last, conds, cut, pathOrKey, key, rekey,
          running, seen, m_sessions, slast,
          m_modelsLoaded, m_dtype, m_conds, m_rng, m_lastError, gen, firstRun, elast,
          samp, rv, dm, md>>
cacheVars == <<m_cache, dirIsFile, dirExists, disk, origin, last, conds, cut>>
keyVars == <<pathOrKey, key, rekey>>
threadVars == <<running, seen>>
sessVars == <<m_sessions, slast>>
engineVars == <<m_modelsLoaded, m_dtype, m_conds, m_rng, m_lastError, gen, firstRun, elast>>
laterVars == <<samp, rv, dm, md>>
nonCacheVars == <<keyVars, threadVars, sessVars, engineVars, laterVars>>

----------------------------------------------------------------------------
(* Bounds of the model *)

\* longest path-like string given to ExtractKey
MaxLen == 5
\* longest data array of a record in the blob round trip
MaxElems == 1

----------------------------------------------------------------------------
(* std::filesystem::path decomposition (generic format, separator '/') *)

Sep == "/"
Dot == "."

SeqsUpTo(S, n) == UNION {[1..m -> S] : m \in 0..n}

\* index of the last occurrence of c in s, 0 if none
RECURSIVE LastIndexOf(_, _)
LastIndexOf(s, c) ==
    IF s = <<>> THEN 0
    ELSE IF s[Len(s)] = c THEN Len(s)
    ELSE LastIndexOf(SubSeq(s, 1, Len(s) - 1), c)

\* path::filename(): what follows the last separator (empty after a trailing one)
Filename(p) == SubSeq(p, LastIndexOf(p, Sep) + 1, Len(p))

\* path::has_parent_path(): without a root name, the path holds a separator
HasParentPath(p) == LastIndexOf(p, Sep) > 0

\* position of the period that starts the extension of file name f, 0 if none:
\* "." and ".." have none, and a leading period starts no extension
ExtPos(f) ==
    IF f = <<Dot>> \/ f = <<Dot, Dot>> THEN 0
    ELSE IF LastIndexOf(f, Dot) <= 1 THEN 0
    ELSE LastIndexOf(f, Dot)

\* path::extension()
Extension(p) ==
    LET f == Filename(p) IN
    IF ExtPos(f) = 0 THEN <<>> ELSE SubSeq(f, ExtPos(f), Len(f))

\* path::has_extension()
HasExtension(p) == Extension(p) # <<>>

\* path::stem()
Stem(p) ==
    LET f == Filename(p) IN
    IF ExtPos(f) = 0 THEN f ELSE SubSeq(f, 1, ExtPos(f) - 1)

\* a plausible slip: the parent-path branch is missing
ExtractKeyNoParentBranch(s) ==
    IF HasExtension(s) THEN Stem(s) ELSE s

\* VoiceConditionalsCache::ExtractKey
ExtractKey(s) ==
    IF HasExtension(s) THEN Stem(s)
    ELSE IF HasParentPath(s) THEN Filename(s)
    ELSE s

----------------------------------------------------------------------------
(* VoiceConditionals and its binary blob *)

\* sizeof(float), sizeof(int64_t), sizeof(uint32_t), sizeof(uint64_t)
SizeofFloat == 4
SizeofInt64 == 8
SizeofU32 == 4
SizeofU64 == 8
\* 0x434F4E44, "COND"
Magic == 1129270852
Version == 1

None == [tag |-> "none"]          \* nullptr / no entry
NullOpt == [tag |-> "nullopt"]    \* std::nullopt
Throw == [tag |-> "throw"]        \* an exception leaves the call
NoFile == <<-1>>                  \* no file at the path

IsRecord(x) == "condEmb" \in DOMAIN x

\* VoiceConditionals::IsValid
IsValid(v) == v.condEmb # <<>> /\ v.promptToken # <<>>

\* n as w little-endian bytes
RECURSIVE ToLE(_, _)
ToLE(n, w) == IF w = 0 THEN <<>> ELSE <<n % 256>> \o ToLE(n \div 256, w - 1)

\* the number held by little-endian bytes bs
RECURSIVE FromLE(_)
FromLE(bs) == IF bs = <<>> THEN 0 ELSE bs[1] + 256 * FromLE(Tail(bs))

\* the elements of xs, each as w bytes, one after the other
RECURSIVE RawBytes(_, _)
RawBytes(xs, w) == IF xs = <<>> THEN <<>> ELSE ToLE(xs[1], w) \o RawBytes(Tail(xs), w)

\* writeArray without the shape: a plausible slip of Save
WriteArrayNoShape(data, shape, esz) ==
    ToLE(0, SizeofU32) \o ToLE(Len(data) * esz, SizeofU64) \o RawBytes(data, esz)

\* the writeArray lambda of Save: num_dims, shape, byte_count, element bytes
WriteArray(data, shape, esz) ==
    ToLE(Len(shape), SizeofU32) \o RawBytes(shape, SizeofInt64)
        \o ToLE(Len(data) * esz, SizeofU64) \o RawBytes(data, esz)

\* the bytes a successful VoiceConditionals::Save streams to the file
Blob(v) ==
    ToLE(Magic, SizeofU32) \o ToLE(Version, SizeofU32)
        \o WriteArray(v.condEmb, v.condEmbShape, SizeofFloat)
        \o WriteArray(v.promptToken, v.promptTokenShape, SizeofInt64)
        \o WriteArray(v.speakerEmbeddings, v.speakerEmbeddingsShape, SizeofFloat)
        \o WriteArray(v.speakerFeatures, v.speakerFeaturesShape, SizeofFloat)

\* std::istream::read of n bytes at offset pos of file f succeeds only when
\* the stream is still good and n bytes are left; a failed stream stays
\* failed, so every later read fails too
CanRead(f, good, pos, n) == good /\ pos + n <= Len(f)
BytesAt(f, pos, n) == SubSeq(f, pos + 1, pos + n)

\* the i-th of the w-byte elements of bs
ElemAt(bs, i, w) == FromLE(SubSeq(bs, (i - 1) * w + 1, i * w))

\* the readFloatArray / readInt64Array lambdas of Load (esz = element size)
\* on a stream in state st = [pos, good]: num_dims, the shape, byte_count,
\* the element bytes. A size field whose read failed is used uninitialised
\* (uninit); the vectors of a failed read hold nothing the caller ever sees.
ReadArray(f, st, esz) ==
    LET okDims == CanRead(f, st.good, st.pos, SizeofU32)
        numDims == IF okDims THEN FromLE(BytesAt(f, st.pos, SizeofU32)) ELSE 0
        posShape == st.pos + SizeofU32
        okShape == CanRead(f, okDims, posShape, numDims * SizeofInt64)
        posSize == posShape + numDims * SizeofInt64
        okSize == CanRead(f, okShape, posSize, SizeofU64)
        dataSize == IF okSize THEN FromLE(BytesAt(f, posSize, SizeofU64)) ELSE 0
        posData == posSize + SizeofU64
        okData == CanRead(f, okSize, posData, dataSize)
    IN  [shape |-> IF okShape
                   THEN [i \in 1..numDims |->
                           ElemAt(BytesAt(f, posShape, numDims * SizeofInt64), i, SizeofInt64)]
                   ELSE <<>>,
         data |-> IF okData
                  THEN [i \in 1..(dataSize \div esz) |->
                          ElemAt(BytesAt(f, posData, dataSize), i, esz)]
                  ELSE <<>>,
         st |-> [pos |-> IF okData THEN posData + dataSize ELSE st.pos, good |-> okData],
         uninit |-> ~okDims \/ ~okSize]

\* the reads of Load in their order: magic, version, then the four arrays
\* cond_emb, prompt_token, speaker_embeddings, speaker_features
ReadBlob(f) ==
    LET okMagic == CanRead(f, TRUE, 0, SizeofU32)
        okVersion == CanRead(f, okMagic, SizeofU32, SizeofU32)
        arrays ==
            UNION {UNION {UNION {{<<a1, a2, a3, a4>> :
                a4 \in {ReadArray(f, a3.st, SizeofFloat)}} :
                a3 \in {ReadArray(f, a2.st, SizeofFloat)}} :
                a2 \in {ReadArray(f, a1.st, SizeofInt64)}} :
                a1 \in {ReadArray(f, [pos |-> SizeofU32 + SizeofU32, good |-> okVersion],
                                  SizeofFloat)}}
    IN  {[okMagic |-> okMagic,
          magic |-> IF okMagic THEN FromLE(BytesAt(f, 0, SizeofU32)) ELSE 0,
          okVersion |-> okVersion,
          version |-> IF okVersion THEN FromLE(BytesAt(f, SizeofU32, SizeofU32)) ELSE 0,
          good |-> a[4].st.good,
          uninit |-> a[1].uninit \/ a[2].uninit \/ a[3].uninit \/ a[4].uninit,
          conds |-> [condEmb |-> a[1].data, promptToken |-> a[2].data,
                     speakerEmbeddings |-> a[3].data, speakerFeatures |-> a[4].data,
                     condEmbShape |-> a[1].shape, promptTokenShape |-> a[2].shape,
                     speakerEmbeddingsShape |-> a[3].shape,
                     speakerFeaturesShape |-> a[4].shape]] : a \in arrays}

\* a plausible slip of Load: the magic and the version are not compared
LoadNoFormatCheck(f) ==
    IF f = NoFile THEN {NullOpt}
    ELSE UNION {IF ~r.good THEN {NullOpt} ELSE {r.conds} : r \in ReadBlob(f)}

\* VoiceConditionals::Load: the set of outcomes the call can have on file f.
\* A value whose read failed is indeterminate: the magic or version compare may
\* go either way, and a resize by an indeterminate size may throw.
Load(f) ==
    IF f = NoFile THEN {NullOpt}
    ELSE UNION {
         IF r.okMagic /\ r.magic # Magic THEN {NullOpt}
         ELSE IF r.okVersion /\ r.version # Version THEN {NullOpt}
         ELSE IF ~r.good THEN (IF r.uninit THEN {NullOpt, Throw} ELSE {NullOpt})
         ELSE {r.conds} : r \in ReadBlob(f)}

----------------------------------------------------------------------------
(* Inputs *)

Chars == {"a", "w", Dot, Sep}
\* the path-like strings given to ExtractKey
Paths == SeqsUpTo(Chars, MaxLen)
Unset == <<"?">>

\* the i-th element of data array number fld: distinct in every field and place
Elem(fld, i) == 4096 * fld + 256 * i + fld
DataOf(fld, n) == [i \in 1..n |-> Elem(fld, i)]

\* the records handed to the blob round trip
BlobRecords ==
    {[condEmb |-> DataOf(1, n[1]), promptToken |-> DataOf(2, n[2]),
      speakerEmbeddings |-> DataOf(3, n[3]), speakerFeatures |-> DataOf(4, n[4]),
      condEmbShape |-> s1, promptTokenShape |-> s2,
      speakerEmbeddingsShape |-> s3, speakerFeaturesShape |-> s4] :
        n \in [1..4 -> 0..MaxElems],
        s1 \in {<<>>, <<1, 1>>}, s2 \in {<<>>, <<1, 2>>},
        s3 \in {<<>>, <<1, 3>>}, s4 \in {<<>>, <<1, 4>>}}

\* the keys used with the cache: a plain name and the empty key (what
\* ExtractKey gives for "dir/")
CacheKeys == {<<"a">>, <<>>}
\* the key of the blob round trip
BlobKey == <<"a">>

\* the records given to the cache: two valid ones and one IsValid rejects
CondsA ==
    [condEmb |-> DataOf(1, 1), promptToken |-> DataOf(2, 1),
     speakerEmbeddings |-> DataOf(3, 1), speakerFeatures |-> DataOf(4, 1),
     condEmbShape |-> <<1>>, promptTokenShape |-> <<1>>,
     speakerEmbeddingsShape |-> <<1>>, speakerFeaturesShape |-> <<1>>]
CondsB ==
    [condEmb |-> DataOf(5, 2), promptToken |-> DataOf(6, 1),
     speakerEmbeddings |-> <<>>, speakerFeatures |-> <<>>,
     condEmbShape |-> <<2>>, promptTokenShape |-> <<1>>,
     speakerEmbeddingsShape |-> <<>>, speakerFeaturesShape |-> <<>>]
CondsInvalid ==
    [condEmb |-> <<>>, promptToken |-> DataOf(2, 1),
     speakerEmbeddings |-> DataOf(3, 1), speakerFeatures |-> DataOf(4, 1),
     condEmbShape |-> <<>>, promptTokenShape |-> <<1>>,
     speakerEmbeddingsShape |-> <<1>>, speakerFeaturesShape |-> <<1>>]
CacheRecords == {CondsA, CondsB, CondsInvalid}

----------------------------------------------------------------------------
(* VoiceConditionalsCache *)

CondExt == <<Dot, "c", "o", "n", "d">>

\* VoiceConditionalsCache::GetCachePath, relative to m_cacheDir
GetCachePath(k) == k \o CondExt

CachePaths == {GetCachePath(k) : k \in CacheKeys}

\* VoiceConditionalsCache::Has
Has(k) == m_cache[k] # None
\* VoiceConditionalsCache::Get (None is nullptr)
Get(k) == m_cache[k]
\* VoiceConditionalsCache::ExistsOnDisk
ExistsOnDisk(k) == disk[GetCachePath(k)] # NoFile
\* VoiceConditionalsCache::Size
Size == Cardinality({k \in CacheKeys : m_cache[k] # None})

\* what a call leaves in `last`: the call, its arguments, the result, and
\* how the file system answered (io: the disk write of Put; failed: the files
\* whose fs::remove failed); ret is FALSE when the call threw
Called(op, k, v, save, ret, threw, count, io, failed) ==
    [op |-> op, key |-> k, conds |-> v, save |-> save, ret |-> ret,
     threw |-> threw, count |-> count, io |-> io, failed |-> failed]

\* how the file system answers one SaveToDisk: all goes well, the directory
\* cannot be created (EnsureCacheDir sees it missing and fails; or Save finds
\* a file where the directory should be, and its fs::create_directories
\* throws), the file cannot be opened, or the stream fails after the n bytes
\* of the header went out
SaveOutcomes ==
    {[kind |-> "ok", n |-> 0], [kind |-> "mkdir_fail", n |-> 0],
     [kind |-> "mkdir_throw", n |-> 0], [kind |-> "open_fail", n |-> 0],
     [kind |-> "write_fail", n |-> SizeofU32 + SizeofU32]}

\* VoiceConditionalsCache::EnsureCacheDir
EnsureCacheDir(io) == dirExists \/ io.kind # "mkdir_fail"

\* VoiceConditionals::Save opens (and so truncates) the file
SaveOpens(v, io) == IsValid(v) /\ io.kind \in {"ok", "write_fail"}

\* VoiceConditionals::Save on the file of key k: the file afterwards
SavedFile(k, v, io) ==
    IF ~SaveOpens(v, io) THEN disk[GetCachePath(k)]
    ELSE IF io.kind = "write_fail" THEN SubSeq(Blob(v), 1, io.n)
    ELSE Blob(v)

\* VoiceConditionals::Save: its return value (file.good())
SaveReturns(v, io) == IsValid(v) /\ io.kind = "ok"

\* VoiceConditionalsCache::SaveToDisk: the disk tier afterwards and the result
SaveToDisk(k, v, io) ==
    IF ~EnsureCacheDir(io)
    THEN [dirExists |-> dirExists, disk |-> disk, origin |-> origin, ret |-> FALSE]
    ELSE [dirExists |-> TRUE,
          disk |-> [disk EXCEPT ![GetCachePath(k)] = SavedFile(k, v, io)],
          origin |-> IF SaveOpens(v, io)
                     THEN [origin EXCEPT ![GetCachePath(k)] = v] ELSE origin,
          ret |-> SaveReturns(v, io)]

\* the file system is asked only what the call reaches: the directory is
\* created only when it is missing, fs::create_directories throws exactly
\* when a file is in the way, and nothing is written without saveToDisk or
\* after IsValid failed
SaveOutcomeApplies(v, saveToDisk, io) ==
    /\ io.kind = "mkdir_fail" => ~dirExists
    /\ io.kind = "mkdir_throw" <=> (dirIsFile /\ saveToDisk /\ IsValid(v))
    /\ ~(saveToDisk /\ IsValid(v)) => io.kind = "ok"

\* a plausible slip of Put: emplace, which keeps an entry that is there
PutCallEmplace(k, v, saveToDisk, io) ==
    /\ SaveOutcomeApplies(v, saveToDisk, io)
    /\ LET e == IF IsValid(v) /\ saveToDisk THEN SaveToDisk(k, v, io)
                ELSE [dirExists |-> dirExists, disk |-> disk, origin |-> origin,
                      ret |-> IsValid(v)]
       IN
        /\ m_cache' = IF IsValid(v) /\ m_cache[k] = None
                      THEN [m_cache EXCEPT ![k] = v] ELSE m_cache
        /\ dirExists' = e.dirExists
        /\ disk' = e.disk
        /\ origin' = e.origin
        /\ last' = Called("Put", k, v, saveToDisk, e.ret, io.kind = "mkdir_throw", 0,
                          IF IsValid(v) /\ saveToDisk THEN io.kind ELSE "none", {})
    /\ UNCHANGED <<dirIsFile, conds, cut>>

\* VoiceConditionalsCache::Put
PutCall(k, v, saveToDisk, io) ==
    /\ SaveOutcomeApplies(v, saveToDisk, io)
    /\ LET e == IF IsValid(v) /\ saveToDisk THEN SaveToDisk(k, v, io)
                ELSE [dirExists |-> dirExists, disk |-> disk, origin |-> origin,
                      ret |-> IsValid(v)]
       IN
        /\ m_cache' = IF IsValid(v) THEN [m_cache EXCEPT ![k] = v] ELSE m_cache
        /\ dirExists' = e.dirExists
        /\ disk' = e.disk
        /\ origin' = e.origin
        /\ last' = Called("Put", k, v, saveToDisk, e.ret, io.kind = "mkdir_throw", 0,
                          IF IsValid(v) /\ saveToDisk THEN io.kind ELSE "none", {})
    /\ UNCHANGED <<dirIsFile, conds, cut>>

\* VoiceConditionalsCache::LoadFromDisk, Load ending with outcome out
LoadFromDiskCall(k, out) ==
    /\ out \in Load(disk[GetCachePath(k)])
    /\ m_cache' = IF IsRecord(out) THEN [m_cache EXCEPT ![k] = out] ELSE m_cache
    /\ last' = Called("LoadFromDisk", k, None, FALSE, IsRecord(out), out = Throw, 0,
                      "none", {})
    /\ UNCHANGED <<dirIsFile, dirExists, disk, origin, conds, cut>>

\* the .cond files LoadAllFromDisk and Clear find: regular files directly
\* in m_cacheDir whose path::extension() is ".cond"
Listed ==
    {p \in CachePaths : disk[p] # NoFile /\ ~HasParentPath(p) /\ Extension(p) = CondExt}

\* what Load gives when it does not throw
LoadValue(f) == CHOOSE o \in Load(f) : o # Throw

\* VoiceConditionalsCache::LoadAllFromDisk. The scan order is the directory's:
\* when Load throws on file thrower, the files in done were loaded before it.
\* fs::directory_iterator throws when m_cacheDir is not a directory.
LoadAllFromDiskCall(done, thrower) ==
    /\ \/ thrower = NoFile /\ done = (IF dirExists /\ ~dirIsFile THEN Listed ELSE {})
       \/ /\ dirExists /\ ~dirIsFile
          /\ thrower \in Listed
          /\ Throw \in Load(disk[thrower])
          /\ done \subseteq Listed \ {thrower}
    /\ m_cache' = [k \in CacheKeys |->
                     IF \E p \in done : Stem(p) = k
                                        /\ IsRecord(LoadValue(disk[GetCachePath(k)]))
                     THEN LoadValue(disk[GetCachePath(k)]) ELSE m_cache[k]]
    /\ last' = Called("LoadAllFromDisk", <<>>, None, FALSE,
                      thrower = NoFile /\ ~dirIsFile,
                      thrower # NoFile \/ dirIsFile,
                      Cardinality({p \in done : IsRecord(LoadValue(disk[p]))}),
                      "none", {})
    /\ UNCHANGED <<dirIsFile, dirExists, disk, origin, conds, cut>>

\* a plausible slip of Remove: the file is left alone
RemoveCallMemoryOnly(k, removeFails) ==
    /\ removeFails => ExistsOnDisk(k)
    /\ m_cache' = [m_cache EXCEPT ![k] = None]
    /\ last' = Called("Remove", k, None, FALSE, Has(k), FALSE, 0, "none",
                      IF removeFails THEN {GetCachePath(k)} ELSE {})
    /\ UNCHANGED <<dirIsFile, dirExists, disk, origin, conds, cut>>

\* VoiceConditionalsCache::Remove; removeFails: fs::remove(path, ec) fails
RemoveCall(k, removeFails) ==
    /\ removeFails => ExistsOnDisk(k)
    /\ m_cache' = [m_cache EXCEPT ![k] = None]
    /\ disk' = IF ExistsOnDisk(k) /\ ~removeFails
               THEN [disk EXCEPT ![GetCachePath(k)] = NoFile] ELSE disk
    /\ origin' = IF ExistsOnDisk(k) /\ ~removeFails
                 THEN [origin EXCEPT ![GetCachePath(k)] = None] ELSE origin
    /\ last' = Called("Remove", k, None, FALSE,
                      Has(k) \/ (ExistsOnDisk(k) /\ ~removeFails), FALSE, 0, "none",
                      IF removeFails THEN {GetCachePath(k)} ELSE {})
    /\ UNCHANGED <<dirIsFile, dirExists, conds, cut>>

\* VoiceConditionalsCache::ClearMemory
ClearMemoryCall ==
    /\ m_cache' = [k \in CacheKeys |-> None]
    /\ last' = Called("ClearMemory", <<>>, None, FALSE, TRUE, FALSE, 0, "none", {})
    /\ UNCHANGED <<dirIsFile, dirExists, disk, origin, conds, cut>>

\* VoiceConditionalsCache::Clear; failed: the files whose fs::remove fails.
\* fs::directory_iterator throws, after ClearMemory, when m_cacheDir is not a
\* directory.
ClearCall(failed) ==
    /\ failed \subseteq (IF dirExists THEN Listed ELSE {})
    /\ m_cache' = [k \in CacheKeys |-> None]
    /\ disk' = [p \in CachePaths |->
                  IF dirExists /\ p \in Listed \ failed THEN NoFile ELSE disk[p]]
    /\ origin' = [p \in CachePaths |->
                    IF dirExists /\ p \in Listed \ failed THEN None ELSE origin[p]]
    /\ last' = Called("Clear", <<>>, None, FALSE, ~dirIsFile, dirIsFile, 0, "none", failed)
    /\ UNCHANGED <<dirIsFile, dirExists, conds, cut>>

\* the process ends and a new VoiceConditionalsCache is constructed on the
\* same directory: memory starts empty, the files stay
RestartCall ==
    /\ m_cache' = [k \in CacheKeys |-> None]
    /\ last' = Called("Restart", <<>>, None, FALSE, TRUE, FALSE, 0, "none", {})
    /\ UNCHANGED <<dirIsFile, dirExists, disk, origin, conds, cut>>

\* another program leaves a file with a foreign magic (at = 1) or version
\* (at = 5) where the blob of key k was
TamperCall(k, at) ==
    /\ ExistsOnDisk(k)
    /\ Len(disk[GetCachePath(k)]) >= SizeofU32 + SizeofU32
    /\ disk' = [disk EXCEPT ![GetCachePath(k)] =
                  [@ EXCEPT ![at] = (@ + 1) % 256]]
    /\ origin' = [origin EXCEPT ![GetCachePath(k)] = None]
    /\ last' = Called("Tamper", k, None, FALSE, TRUE, FALSE, at, "none", {})
    /\ UNCHANGED <<m_cache, dirIsFile, dirExists, conds, cut>>

\* the file of key k loses all but its first n bytes
TruncateCall(k, n) ==
    /\ ExistsOnDisk(k)
    /\ n < Len(disk[GetCachePath(k)])
    /\ disk' = [disk EXCEPT ![GetCachePath(k)] = SubSeq(@, 1, n)]
    /\ cut' = n
    /\ last' = Called("Truncate", k, None, FALSE, TRUE, FALSE, n, "none", {})
    /\ UNCHANGED <<m_cache, dirIsFile, dirExists, origin, conds>>

----------------------------------------------------------------------------
(* The cache under any sequence of calls *)

NoCall == Called("init", <<>>, None, FALSE, TRUE, FALSE, 0, "none", {})

KeyIdle == pathOrKey = <<>> /\ key = Unset /\ rekey = Unset

\* the threads calling into one cache
Threads == {"t1", "t2"}

\* a thread that is in no cache call; a thread that has made no Get
Outside == [op |-> "idle"]
NoGet == [tag |-> "noget"]

ThreadsIdle ==
    /\ running = [t \in Threads |-> Outside]
    /\ seen = [t \in Threads |-> NoGet]

\* ChatterboxTTS::SPEECH_ENCODER, EMBED_TOKENS, LANGUAGE_MODEL, COND_DECODER
SPEECH_ENCODER == "speech_encoder"
EMBED_TOKENS == "embed_tokens"
LANGUAGE_MODEL == "language_model"
COND_DECODER == "conditional_decoder"
ModelNames == {SPEECH_ENCODER, EMBED_TOKENS, LANGUAGE_MODEL, COND_DECODER}

\* no session under a name; no LoadModel call made yet
NoSession == <<>>
NoLoad == [op |-> "init"]

SessionsIdle ==
    /\ m_sessions = [n \in ModelNames |-> NoSession]
    /\ slast = NoLoad

\* a default-constructed VoiceConditionals
EmptyConds ==
    [condEmb |-> <<>>, promptToken |-> <<>>,
     speakerEmbeddings |-> <<>>, speakerFeatures |-> <<>>,
     condEmbShape |-> <<>>, promptTokenShape |-> <<>>,
     speakerEmbeddingsShape |-> <<>>, speakerFeaturesShape |-> <<>>]

\* no Generate call in progress; no engine call made yet
NoGen ==
    [pc |-> "idle", returned |-> "none", tokenIds |-> <<>>, maxNewTokens |-> 0,
     seed |-> 0, step |-> 0, generatedTokens |-> <<>>, kvCacheValues |-> <<>>,
     lmIn |-> <<>>, lmOut |-> <<>>, embedRuns |-> 0, lmRuns |-> 0,
     decoderRuns |-> 0, decoderTokens |-> <<>>, currentPosition |-> 0,
     positionIds |-> <<>>, attentionMask |-> <<>>, before |-> None]
NoEngineCall == [op |-> "init"]

EngineIdle ==
    /\ m_modelsLoaded = FALSE
    /\ m_dtype = ""
    /\ m_conds = EmptyConds
    /\ m_rng = 0
    /\ m_lastError = ""
    /\ gen = NoGen
    /\ firstRun = None
    /\ elast = NoEngineCall

\* no sampling step, no ResolveVoice call, no download
NoSamp == [pc |-> "idle"]
NoResolve == [pc |-> "idle", later |-> 0]
NoDm == [pc |-> "idle", m_initialized |-> FALSE]
NoMd == [pc |-> "idle"]
SampIdle == samp = NoSamp
ResolveIdle == rv = NoResolve
DmIdle == dm = NoDm
MdIdle == md = NoMd
LaterIdle == SampIdle /\ ResolveIdle /\ DmIdle /\ MdIdle

InitCache ==
    /\ m_cache = [k \in CacheKeys |-> None]
    /\ dirIsFile \in BOOLEAN
    /\ dirExists = dirIsFile
    /\ disk = [p \in CachePaths |-> NoFile]
    /\ origin = [p \in CachePaths |-> None]
    /\ last = NoCall
    /\ conds = None
    /\ cut = -1
    /\ KeyIdle
    /\ LaterIdle
    /\ ThreadsIdle /\ SessionsIdle /\ EngineIdle

Put ==
    /\ \E k \in CacheKeys, v \in CacheRecords, saveToDisk \in BOOLEAN :
         \E io \in SaveOutcomes : PutCall(k, v, saveToDisk, io)
    /\ UNCHANGED nonCacheVars

LoadFromDisk ==
    /\ \E k \in CacheKeys : \E out \in Load(disk[GetCachePath(k)]) :
         LoadFromDiskCall(k, out)
    /\ UNCHANGED nonCacheVars

LoadAllFromDisk ==
    /\ \E done \in SUBSET CachePaths, thrower \in CachePaths \cup {NoFile} :
         LoadAllFromDiskCall(done, thrower)
    /\ UNCHANGED nonCacheVars

Remove ==
    /\ \E k \in CacheKeys, removeFails \in BOOLEAN : RemoveCall(k, removeFails)
    /\ UNCHANGED nonCacheVars

Clear ==
    /\ \E failed \in SUBSET CachePaths : ClearCall(failed)
    /\ UNCHANGED nonCacheVars

ClearMemory == ClearMemoryCall /\ UNCHANGED nonCacheVars

Restart == RestartCall /\ UNCHANGED nonCacheVars

NextCache ==
    \/ Put
    \/ LoadFromDisk
    \/ LoadAllFromDisk
    \/ Remove
    \/ Clear
    \/ ClearMemory
    \/ Restart

SpecCache == InitCache /\ [][NextCache]_vars

----------------------------------------------------------------------------
(* The blob round trip: Put to disk, a fresh cache, LoadFromDisk *)

InitBlob ==
    /\ m_cache = [k \in CacheKeys |-> None]
    /\ dirIsFile = FALSE
    /\ dirExists = FALSE
    /\ disk = [p \in CachePaths |-> NoFile]
    /\ origin = [p \in CachePaths |-> None]
    /\ last = NoCall
    /\ conds \in BlobRecords
    /\ cut = -1
    /\ KeyIdle
    /\ LaterIdle
    /\ ThreadsIdle /\ SessionsIdle /\ EngineIdle

BlobPut ==
    /\ last.op = "init"
    /\ PutCall(BlobKey, conds, TRUE, [kind |-> "ok", n |-> 0])
    /\ UNCHANGED nonCacheVars

BlobRestart ==
    /\ last.op = "Put"
    /\ RestartCall
    /\ UNCHANGED nonCacheVars

BlobTruncate ==
    /\ last.op = "Restart"
    /\ \E n \in 0..(Len(disk[GetCachePath(BlobKey)]) - 1) : TruncateCall(BlobKey, n)
    /\ UNCHANGED nonCacheVars

BlobTamper ==
    /\ last.op \in {"Put", "Restart"}
    /\ \E at \in {1, SizeofU32 + 1} : TamperCall(BlobKey, at)
    /\ UNCHANGED nonCacheVars

BlobLoad ==
    /\ last.op \in {"Restart", "Truncate", "Tamper"}
    /\ \E out \in Load(disk[GetCachePath(BlobKey)]) : LoadFromDiskCall(BlobKey, out)
    /\ UNCHANGED nonCacheVars

NextBlob ==
    \/ BlobPut
    \/ BlobRestart
    \/ BlobTruncate
    \/ BlobTamper
    \/ BlobLoad

SpecBlob == InitBlob /\ [][NextBlob]_vars

----------------------------------------------------------------------------
(* Key normalisation *)

InitKey ==
    /\ m_cache = [k \in CacheKeys |-> None]
    /\ dirIsFile = FALSE
    /\ dirExists = FALSE
    /\ disk = [p \in CachePaths |-> NoFile]
    /\ origin = [p \in CachePaths |-> None]
    /\ last = NoCall
    /\ conds = None
    /\ cut = -1
    /\ pathOrKey \in Paths
    /\ key = Unset
    /\ rekey = Unset
    /\ LaterIdle
    /\ ThreadsIdle /\ SessionsIdle /\ EngineIdle

\* a caller normalises a path
Normalise ==
    /\ key = Unset
    /\ key' = ExtractKey(pathOrKey)
    /\ UNCHANGED <<pathOrKey, rekey>>
    /\ UNCHANGED <<cacheVars, threadVars, sessVars, engineVars, laterVars>>

\* a caller normalises what is already a key
NormaliseAgain ==
    /\ key # Unset
    /\ rekey = Unset
    /\ rekey' = ExtractKey(key)
    /\ UNCHANGED <<pathOrKey, key>>
    /\ UNCHANGED <<cacheVars, threadVars, sessVars, engineVars, laterVars>>

NextKey ==
    \/ Normalise
    \/ NormaliseAgain

SpecKey == InitKey /\ [][NextKey]_vars

Spec == SpecCache

----------------------------------------------------------------------------
(* One cache called from several threads. The mutex of the class is a comment *)
(* (VoiceConditionalsCache.h, "Placeholder for future thread safety"): a     *)
(* method takes no lock on entry and releases none on return, so a thread   *)
(* enters a call whatever the other threads are doing.                      *)

ReaderOps == {"Get", "Has"}
WriterOps == {"Put", "Remove", "Clear", "LoadFromDisk"}

IsReader(c) == c.op \in ReaderOps
IsWriter(c) == c.op \in WriterOps

\* the entry of a key while `m_cache[key] = v` is half done: the struct is
\* assigned member by member, the four arrays before the four shapes
TornEntry(old, v) ==
    LET from == IF old = None THEN EmptyConds ELSE old
    IN  [condEmb |-> v.condEmb, promptToken |-> v.promptToken,
         speakerEmbeddings |-> v.speakerEmbeddings,
         speakerFeatures |-> v.speakerFeatures,
         condEmbShape |-> from.condEmbShape,
         promptTokenShape |-> from.promptTokenShape,
         speakerEmbeddingsShape |-> from.speakerEmbeddingsShape,
         speakerFeaturesShape |-> from.speakerFeaturesShape]

\* the threads that are in the middle of changing the map
Writing == {u \in Threads : IsWriter(running[u]) /\ running[u].phase = "writing"}

InitThreads ==
    /\ m_cache = [k \in CacheKeys |-> None]
    /\ dirIsFile = FALSE
    /\ dirExists = TRUE
    /\ disk = [p \in CachePaths |-> Blob(CondsA)]
    /\ origin = [p \in CachePaths |-> CondsA]
    /\ last = NoCall
    /\ conds = None
    /\ cut = -1
    /\ KeyIdle
    /\ LaterIdle
    /\ ThreadsIdle /\ SessionsIdle /\ EngineIdle

\* thread t calls a method of the cache: nothing makes it wait
ThreadEnter(t) ==
    /\ running[t] = Outside
    /\ \E op \in ReaderOps \cup WriterOps, v \in {CondsA, CondsB} :
         /\ op # "Put" => v = CondsA
         /\ running' = [running EXCEPT ![t] =
                          [op |-> op, key |-> BlobKey, conds |-> v, phase |-> "entered"]]
    /\ seen' = [seen EXCEPT ![t] = NoGet]
    /\ UNCHANGED <<cacheVars, keyVars, sessVars, engineVars, laterVars>>

\* a writer starts changing the map: Put and a LoadFromDisk that found a
\* record are half-way through the assignment of the entry
ThreadMutate(t) ==
    /\ IsWriter(running[t]) /\ running[t].phase = "entered"
    /\ running' = [running EXCEPT ![t].phase = "writing"]
    /\ m_cache' =
         LET c == running[t] IN
         IF c.op = "Put"
         THEN [m_cache EXCEPT ![c.key] = TornEntry(@, c.conds)]
         ELSE IF c.op = "LoadFromDisk" /\ IsRecord(LoadValue(disk[GetCachePath(c.key)]))
         THEN [m_cache EXCEPT ![c.key] = TornEntry(@, LoadValue(disk[GetCachePath(c.key)]))]
         ELSE m_cache
    /\ UNCHANGED <<dirIsFile, dirExists, disk, origin, last, conds, cut>>
    /\ UNCHANGED <<seen, keyVars, sessVars, engineVars, laterVars>>

\* a reader does its m_cache.find and looks at what it found
ThreadRead(t) ==
    /\ IsReader(running[t]) /\ running[t].phase = "entered"
    /\ running' = [running EXCEPT ![t].phase = "read"]
    /\ seen' = [seen EXCEPT ![t] =
                  [value |-> m_cache[running[t].key], writers |-> Writing]]
    /\ UNCHANGED <<cacheVars, keyVars, sessVars, engineVars, laterVars>>

\* the call of thread t returns; a writer has completed its change
ThreadLeave(t) ==
    /\ \/ IsReader(running[t]) /\ running[t].phase = "read" /\ UNCHANGED cacheVars
       \/ /\ IsWriter(running[t]) /\ running[t].phase = "writing"
          /\ LET c == running[t] IN
             \/ c.op = "Put" /\ PutCall(c.key, c.conds, FALSE, [kind |-> "ok", n |-> 0])
             \/ c.op = "Remove" /\ RemoveCall(c.key, FALSE)
             \/ c.op = "Clear" /\ ClearCall({})
             \/ c.op = "LoadFromDisk"
                /\ LoadFromDiskCall(c.key, LoadValue(disk[GetCachePath(c.key)]))
    /\ running' = [running EXCEPT ![t] = Outside]
    /\ UNCHANGED <<seen, keyVars, sessVars, engineVars, laterVars>>

Enter == \E t \in Threads : ThreadEnter(t)
Mutate == \E t \in Threads : ThreadMutate(t)
Read == \E t \in Threads : ThreadRead(t)
Leave == \E t \in Threads : ThreadLeave(t)

NextThreads ==
    \/ Enter
    \/ Mutate
    \/ Read
    \/ Leave

SpecThreads == InitThreads /\ [][NextThreads]_vars

----------------------------------------------------------------------------
(* The session manager: logical model name -> loaded session *)

\* the model files a session is created from
ModelPaths == {<<"m1.onnx">>, <<"m2.onnx">>}

IsModelLoaded(name) == m_sessions[name] # NoSession
GetSession(name) == m_sessions[name]

LoadCalled(name, path, already, ret, threw) ==
    [op |-> "LoadModel", name |-> name, path |-> path, already |-> already,
     ret |-> ret, threw |-> threw]

\* LoadModel(modelPath, name); exists: the file is there, ortOk: the runtime
\* accepts it
LoadModelCall(modelPath, name, exists, ortOk) ==
    IF IsModelLoaded(name)
    THEN /\ slast' = LoadCalled(name, modelPath, TRUE, TRUE, FALSE)
         /\ UNCHANGED m_sessions
    ELSE IF ~exists \/ ~ortOk
    THEN /\ slast' = LoadCalled(name, modelPath, FALSE, FALSE, TRUE)
         /\ UNCHANGED m_sessions
    ELSE /\ m_sessions' = [m_sessions EXCEPT ![name] = modelPath]
         /\ slast' = LoadCalled(name, modelPath, FALSE, TRUE, FALSE)

InitSessions ==
    /\ m_cache = [k \in CacheKeys |-> None]
    /\ dirIsFile = FALSE
    /\ dirExists = FALSE
    /\ disk = [p \in CachePaths |-> NoFile]
    /\ origin = [p \in CachePaths |-> None]
    /\ last = NoCall
    /\ conds = None
    /\ cut = -1
    /\ KeyIdle
    /\ LaterIdle
    /\ ThreadsIdle /\ SessionsIdle /\ EngineIdle

LoadModel ==
    /\ \E modelPath \in ModelPaths, name \in ModelNames, exists \in BOOLEAN, ortOk \in BOOLEAN :
         LoadModelCall(modelPath, name, exists, ortOk)
    /\ UNCHANGED <<cacheVars, keyVars, threadVars, engineVars, laterVars>>

NextSessions ==
    \/ LoadModel

SpecSessions == InitSessions /\ [][NextSessions]_vars

----------------------------------------------------------------------------
(* The engine: ChatterboxTTS *)

SAMPLE_RATE == 24000
START_SPEECH_TOKEN == 6561
STOP_SPEECH_TOKEN == 6562
SILENCE_TOKEN == 4299
NUM_KV_HEADS == 16
HEAD_DIM == 64

\* the reference must not be shorter than this many seconds
MinPromptSeconds == 5

\* the quantisation variants LoadModels is asked for
Dtypes == {"fp32", "q4f16"}

\* GetModelFilename(name, dtype): the name followed by the suffix of the variant
GetModelFilename(name, dtype) ==
    <<name, IF dtype = "fp32" THEN ".onnx"
            ELSE IF dtype = "q8" THEN "_quantized.onnx"
            ELSE IF dtype = "q4" THEN "_q4.onnx"
            ELSE IF dtype = "q4f16" THEN "_q4f16.onnx"
            ELSE "_other.onnx">>

\* the order LoadModels loads the four models in
modelNames == <<SPEECH_ENCODER, EMBED_TOKENS, LANGUAGE_MODEL, COND_DECODER>>

IsReady ==
    /\ m_modelsLoaded
    /\ IsModelLoaded(SPEECH_ENCODER)
    /\ IsModelLoaded(EMBED_TOKENS)
    /\ IsModelLoaded(LANGUAGE_MODEL)
    /\ IsModelLoaded(COND_DECODER)

\* what the file system and the runtime do to a LoadModels call: every model
\* loads, the model directory is not found, the file of the at-th model is
\* missing, or the runtime refuses the at-th model (LoadModel throws)
LoadOutcomes ==
    {[kind |-> "ok", at |-> 0], [kind |-> "nodir", at |-> 0]}
      \cup {[kind |-> k, at |-> i] : k \in {"missing", "throw"}, i \in {1, 3}}

\* a call on the engine other than Generate: the samples given, whether the engine
\* was ready and the file decoded, what it returned, whether it threw, whether
\* it ran the speech encoder
EngineCalled(op, samples, ready, loadOk, ret, threw, ran) ==
    [op |-> op, samples |-> samples, ready |-> ready, loadOk |-> loadOk,
     ret |-> ret, threw |-> threw, ran |-> ran]

\* a plausible slip of LoadModels: the flag and the session manager of the
\* earlier load are kept
LoadModelsCallKeepsManager(dtype, out) ==
    LET reached == IF out.kind = "ok" THEN Len(modelNames)
                   ELSE IF out.kind = "nodir" THEN 0
                   ELSE out.at - 1
        idx(n) == CHOOSE i \in 1..Len(modelNames) : modelNames[i] = n
    IN  /\ m_sessions' = [n \in ModelNames |->
                            IF idx(n) <= reached THEN GetModelFilename(n, dtype)
                            ELSE m_sessions[n]]
        /\ m_modelsLoaded' = (m_modelsLoaded \/ out.kind = "ok")
        /\ m_dtype' = IF out.kind = "ok" THEN dtype ELSE m_dtype
        /\ m_lastError' = IF out.kind = "ok" THEN ""
                          ELSE IF out.kind = "nodir" THEN "Could not find ONNX models directory"
                          ELSE IF out.kind = "missing" THEN "Model file not found"
                          ELSE ""
        /\ elast' = [dtype |-> dtype] @@ EngineCalled("LoadModels", 0, IsReady, TRUE,
                                                     out.kind = "ok", out.kind = "throw", FALSE)
        /\ UNCHANGED <<m_conds, m_rng>>

\* LoadModels(modelDir, dtype): a fresh session manager, then the four models
\* in order until one fails
LoadModelsCall(dtype, out) ==
    LET reached == IF out.kind = "ok" THEN Len(modelNames)
                   ELSE IF out.kind = "nodir" THEN 0
                   ELSE out.at - 1
        idx(n) == CHOOSE i \in 1..Len(modelNames) : modelNames[i] = n
    IN  /\ m_sessions' = [n \in ModelNames |->
                            IF idx(n) <= reached THEN GetModelFilename(n, dtype)
                            ELSE NoSession]
        /\ m_modelsLoaded' = (out.kind = "ok")
        /\ m_dtype' = IF out.kind = "ok" THEN dtype ELSE m_dtype
        /\ m_lastError' = IF out.kind = "ok" THEN ""
                          ELSE IF out.kind = "nodir" THEN "Could not find ONNX models directory"
                          ELSE IF out.kind = "missing" THEN "Model file not found"
                          ELSE ""
        /\ elast' = [dtype |-> dtype] @@ EngineCalled("LoadModels", 0, IsReady, TRUE,
                                                     out.kind = "ok", out.kind = "throw", FALSE)
        /\ UNCHANGED <<m_conds, m_rng>>

\* a plausible slip of SetConditionals: the record is not stored
SetConditionalsCallNotStored(v) ==
    /\ m_conds' = m_conds
    /\ elast' = EngineCalled("SetConditionals", 0, IsReady, TRUE, TRUE, FALSE, FALSE)
    /\ UNCHANGED <<m_sessions, m_modelsLoaded, m_dtype, m_rng, m_lastError>>

\* SetConditionals(conds): m_conds = conds, whatever conds is
SetConditionalsCall(v) ==
    /\ m_conds' = v
    /\ elast' = EngineCalled("SetConditionals", 0, IsReady, TRUE, TRUE, FALSE, FALSE)
    /\ UNCHANGED <<m_sessions, m_modelsLoaded, m_dtype, m_rng, m_lastError>>

\* AudioData::GetDuration() < limit, for samples at sampleRate: the float
\* quotient samples / sampleRate is below the whole number limit exactly
\* when samples < limit * sampleRate
DurationBelowOrEqual(samples, sampleRate, limit) ==
    IF sampleRate <= 0 THEN 0 <= limit ELSE samples <= limit * sampleRate
DurationBelow(samples, sampleRate, limit) ==
    IF sampleRate <= 0 THEN 0 < limit ELSE samples < limit * sampleRate

\* the lengths, in samples at 24 kHz, of the references given to the engine
PromptSamples ==
    {3 * SAMPLE_RATE, MinPromptSeconds * SAMPLE_RATE - 1,
     MinPromptSeconds * SAMPLE_RATE, 6 * SAMPLE_RATE}

\* the four outputs of the speech encoder
EncodedConds ==
    [condEmb |-> DataOf(7, 1), promptToken |-> DataOf(8, 2),
     speakerEmbeddings |-> DataOf(9, 1), speakerFeatures |-> DataOf(10, 1),
     condEmbShape |-> <<1, 1>>, promptTokenShape |-> <<1, 2>>,
     speakerEmbeddingsShape |-> <<1, 1>>, speakerFeaturesShape |-> <<1, 1>>]

\* what a Run of the speech encoder does: four outputs, fewer, or an exception
EncoderOutcomes == {"ok", "few_outputs", "throw"}

\* RunSpeechEncoder(audio) on a loaded session
RunSpeechEncoder(enc) ==
    /\ m_conds' = IF enc = "ok" THEN EncodedConds ELSE m_conds
    /\ m_lastError' = IF enc = "ok" THEN ""
                      ELSE IF enc = "few_outputs"
                      THEN "Speech encoder returned unexpected number of outputs"
                      ELSE "ONNX Runtime error in speech encoder"

\* PrepareConditionals(audioPath): the file decodes (loadOk) to samples at
\* SAMPLE_RATE
PrepareConditionalsCall(samples, loadOk, enc) ==
    /\ IF ~IsReady
       THEN /\ m_lastError' = "Models not loaded"
            /\ UNCHANGED m_conds
       ELSE IF ~loadOk
       THEN /\ m_lastError' = "Failed to load audio"
            /\ UNCHANGED m_conds
       ELSE IF DurationBelow(samples, SAMPLE_RATE, MinPromptSeconds)
       THEN /\ m_lastError' = "Audio prompt must be longer than 5 seconds"
            /\ UNCHANGED m_conds
       ELSE RunSpeechEncoder(enc)
    /\ LET ran == IsReady /\ loadOk /\ ~DurationBelow(samples, SAMPLE_RATE, MinPromptSeconds)
       IN  elast' = EngineCalled("PrepareConditionals", samples, IsReady, loadOk,
                                 ran /\ enc = "ok", FALSE, ran)
    /\ UNCHANGED <<m_sessions, m_modelsLoaded, m_dtype, m_rng>>

\* the number of states of the generator, and what seed() and one draw do
RngStates == 5
SeedRng(seed) == seed % RngStates
NextRng(s) == (s + 1) % RngStates

\* the seeds a caller passes: 0 asks for no seeding
Seeds == {0, 1, 2}
\* the largest maxNewTokens a caller passes
MaxNewTokens == 3
\* the number of past_key_values inputs of the language model
NumKvSlots == 2
KvSlots == 1..NumKvSlots

\* the token sequences a caller passes
TokenInputs == {<<>>, <<10>>}

\* a Generate that never seeds
SeededNever(seed, rng) == rng
\* the generator after the seeding at the start of Generate
Seeded(seed, rng) == IF seed # 0 THEN SeedRng(seed) ELSE rng

\* the checks of Generate with the token check first
FirstFailedCheckTokensFirst(tokenIds) ==
    IF tokenIds = <<>> THEN "No input tokens"
    ELSE IF ~IsReady THEN "Models not loaded"
    ELSE IF ~IsValid(m_conds) THEN "Voice conditionals not prepared"
    ELSE ""
\* the error of the first check that refuses the call, "" if none does
FirstFailedCheck(tokenIds) ==
    IF ~IsReady THEN "Models not loaded"
    ELSE IF ~IsValid(m_conds) THEN "Voice conditionals not prepared"
    ELSE IF tokenIds = <<>> THEN "No input tokens"
    ELSE ""

\* Ort::Value: a moved-from or never set value, the empty past tensor made
\* at the first step, and the present tensor the language model returned for
\* a slot at a step
NullValue == [t |-> "null"]
EmptyKv == [t |-> "empty", shape |-> <<1, NUM_KV_HEADS, 0, HEAD_DIM>>]
PresentKv(step, k) == [t |-> "present", step |-> step, slot |-> k]

\* the outputs of one run of the language model: the logits, then one
\* present tensor per past_key_values input, in the order of the inputs
LmOutputs(step) ==
    <<[t |-> "logits", step |-> step]>> \o [k \in KvSlots |-> PresentKv(step, k)]

\* the tokens the language model gives weight to, and the weights after the
\* softmax, a function of what the model was fed
Candidates == <<17, SILENCE_TOKEN, STOP_SPEECH_TOKEN>>
Probs(tokenIds, v, generatedTokens) ==
    LET ctx == Len(tokenIds) + Len(v.condEmb) + Len(generatedTokens)
    IN  [i \in 1..Len(Candidates) |-> IF (i + ctx) % Len(Candidates) = 0 THEN 2 ELSE 1]

RECURSIVE SumTo(_, _)
SumTo(probs, i) == IF i = 0 THEN 0 ELSE probs[i] + SumTo(probs, i - 1)

\* SampleToken(probs) with the draw r = s / RngStates: the first index whose
\* cumulative sum reaches r, the last index if none does
SampleToken(probs, s) ==
    LET total == SumTo(probs, Len(probs))
        hit == {i \in 1..Len(probs) : s * total <= SumTo(probs, i) * RngStates}
    IN  IF hit = {} THEN Len(probs) ELSE CHOOSE i \in hit : \A j \in hit : i <= j

\* a loop that never breaks
IsStopNever(token) == FALSE
\* the break of the loop
IsStop(token) == token = STOP_SPEECH_TOKEN

\* the lmInputs of a step for the past_key_values inputs
BindKv(kvCacheValues) ==
    [k \in KvSlots |-> IF kvCacheValues[k] # NullValue THEN kvCacheValues[k] ELSE EmptyKv]

\* a loop that keeps no output
UpdateKvNone(kvCacheValues, lmOutputs) == kvCacheValues
\* kvCacheValues[k] = std::move(lmOutputs[k + 1]) for the slots that have an output
UpdateKv(kvCacheValues, lmOutputs) ==
    [k \in KvSlots |-> IF k + 1 <= Len(lmOutputs) THEN lmOutputs[k + 1] ELSE kvCacheValues[k]]

RECURSIVE Repeat(_, _)
Repeat(x, n) == IF n = 0 THEN <<>> ELSE <<x>> \o Repeat(x, n - 1)

\* an assembly that drops the last token whatever it is
DecoderTokensDropLast(generatedTokens, promptToken) ==
    promptToken \o SubSeq(generatedTokens, 2, Len(generatedTokens) - 1)
        \o Repeat(SILENCE_TOKEN, 3)
\* the tokens given to the conditional decoder
DecoderTokens(generatedTokens, promptToken) ==
    LET endIdx == IF Len(generatedTokens) > 0
                     /\ generatedTokens[Len(generatedTokens)] = STOP_SPEECH_TOKEN
                  THEN Len(generatedTokens) - 1 ELSE Len(generatedTokens)
        speechTokens == SubSeq(generatedTokens, 2, endIdx) \o Repeat(SILENCE_TOKEN, 3)
    IN  promptToken \o speechTokens

\* condSeqLen: the second dimension of the shape of cond_emb, 0 if it has none
CondSeqLen(v) == IF Len(v.condEmbShape) >= 2 THEN v.condEmbShape[2] ELSE 0

\* seqLen of a step: the conditioning and the text at step 0, one token after
SeqLen(step, v, tokenIds) == IF step = 0 THEN CondSeqLen(v) + Len(tokenIds) ELSE 1

\* positionIds[i] = currentPosition + i for i < seqLen
PositionIds(currentPosition, seqLen) == [i \in 1..seqLen |-> currentPosition + i - 1]

\* attentionMask.assign(totalSeqLen, 1) at step 0, resize(totalSeqLen, 1) after
AttentionMask(step, mask, currentPosition, seqLen) ==
    LET totalSeqLen == IF step = 0 THEN seqLen ELSE currentPosition + seqLen
    IN  IF step = 0 THEN [i \in 1..totalSeqLen |-> 1]
        ELSE [i \in 1..totalSeqLen |-> IF i <= Len(mask) THEN mask[i] ELSE 1]

\* a loop that leaves currentPosition where it is
AdvancePositionNone(currentPosition, seqLen) == currentPosition
\* currentPosition += seqLen
AdvancePosition(currentPosition, seqLen) == currentPosition + seqLen

\* the engine state a Generate call starts from
EngineState ==
    [m_conds |-> m_conds, m_sessions |-> m_sessions, ready |-> IsReady,
     m_modelsLoaded |-> m_modelsLoaded, m_dtype |-> m_dtype, m_rng |-> m_rng]

\* Generate returns {} with the given error
ReturnEmpty(g, err) ==
    /\ gen' = [g EXCEPT !.pc = "idle", !.returned = "empty"]
    /\ m_lastError' = err

\* Generate up to the loop: the checks, the seeding, the embedding of the text
GenerateBeginCall(tokenIds, maxNewTokens, seed, embedOk) ==
    LET g == [NoGen EXCEPT !.tokenIds = tokenIds, !.maxNewTokens = maxNewTokens,
                           !.seed = seed, !.before = EngineState]
        err == FirstFailedCheck(tokenIds)
    IN  /\ UNCHANGED <<m_sessions, m_modelsLoaded, m_dtype, m_conds>>
        /\ elast' = NoEngineCall
        /\ IF err # ""
           THEN /\ ReturnEmpty(g, err)
                /\ UNCHANGED m_rng
           ELSE /\ m_rng' = Seeded(seed, m_rng)
                /\ IF ~embedOk
                   THEN ReturnEmpty([g EXCEPT !.embedRuns = 1], "Failed to get text embeddings")
                   ELSE /\ gen' = [g EXCEPT !.pc = IF maxNewTokens > 0 THEN "loop" ELSE "decode",
                                            !.embedRuns = 1,
                                            !.generatedTokens = <<START_SPEECH_TOKEN>>,
                                            !.kvCacheValues = [k \in KvSlots |-> NullValue]]
                        /\ m_lastError' = ""

\* one iteration of the generation loop
GenerateStepCall(embedOk, lmOk) ==
    LET embeds == IF gen.step = 0 THEN gen.embedRuns ELSE gen.embedRuns + 1
        inputs == BindKv(gen.kvCacheValues)
        seqLen == SeqLen(gen.step, m_conds, gen.tokenIds)
        lastMask == IF gen.attentionMask = <<>> THEN <<>>
                    ELSE gen.attentionMask[Len(gen.attentionMask)]
        mask == AttentionMask(gen.step, lastMask, gen.currentPosition, seqLen)
        pos == PositionIds(gen.currentPosition, seqLen)
        moved == [k \in KvSlots |-> NullValue]
        lmOutputs == LmOutputs(gen.step)
        rng == NextRng(m_rng)
        nextToken == Candidates[SampleToken(Probs(gen.tokenIds, m_conds, gen.generatedTokens), rng)]
        generated == Append(gen.generatedTokens, nextToken)
    IN  /\ UNCHANGED <<m_sessions, m_modelsLoaded, m_dtype, m_conds, elast>>
        /\ IF gen.step > 0 /\ ~embedOk
           THEN /\ ReturnEmpty([gen EXCEPT !.embedRuns = embeds], "Failed to get token embedding")
                /\ UNCHANGED m_rng
           ELSE IF ~lmOk
           THEN /\ ReturnEmpty([gen EXCEPT !.embedRuns = embeds, !.lmRuns = @ + 1,
                                           !.kvCacheValues = moved,
                                           !.positionIds = Append(@, pos),
                                           !.attentionMask = Append(@, mask),
                                           !.lmIn = Append(@, inputs)],
                               "ONNX Runtime error in language model")
                /\ UNCHANGED m_rng
           ELSE /\ m_rng' = rng
                /\ UNCHANGED m_lastError
                /\ gen' = [gen EXCEPT
                             !.embedRuns = embeds, !.lmRuns = @ + 1,
                             !.lmIn = Append(@, inputs),
                             !.positionIds = Append(@, pos),
                             !.attentionMask = Append(@, mask),
                             !.currentPosition = IF IsStop(nextToken) THEN @
                                                 ELSE AdvancePosition(@, seqLen),
                             !.lmOut = Append(@, SubSeq(lmOutputs, 2, Len(lmOutputs))),
                             !.generatedTokens = generated,
                             !.kvCacheValues = IF IsStop(nextToken) THEN moved
                                               ELSE UpdateKv(moved, lmOutputs),
                             !.step = IF IsStop(nextToken) THEN @ ELSE @ + 1,
                             !.pc = IF IsStop(nextToken) \/ gen.step + 1 >= gen.maxNewTokens
                                    THEN "decode" ELSE "loop"]

\* Generate after the loop: the decoder's tokens and the run of the decoder
GenerateDecodeCall(decOk) ==
    /\ UNCHANGED <<m_sessions, m_modelsLoaded, m_dtype, m_conds, m_rng, elast>>
    /\ LET g == [gen EXCEPT !.decoderTokens = DecoderTokens(gen.generatedTokens, m_conds.promptToken),
                            !.decoderRuns = 1]
       IN  IF decOk
           THEN /\ gen' = [g EXCEPT !.pc = "idle", !.returned = "audio"]
                /\ UNCHANGED m_lastError
           ELSE ReturnEmpty(g, "ONNX Runtime error in conditional decoder")


InitEngine ==
    /\ m_cache = [k \in CacheKeys |-> None]
    /\ dirIsFile = FALSE
    /\ dirExists = FALSE
    /\ disk = [p \in CachePaths |-> NoFile]
    /\ origin = [p \in CachePaths |-> None]
    /\ last = NoCall
    /\ conds = None
    /\ cut = -1
    /\ KeyIdle
    /\ LaterIdle
    /\ ThreadsIdle /\ SessionsIdle
    /\ m_modelsLoaded = FALSE
    /\ m_dtype = ""
    /\ m_conds = EmptyConds
    /\ m_rng \in 0..(RngStates - 1)
    /\ m_lastError = ""
    /\ gen = NoGen
    /\ firstRun = None
    /\ elast = NoEngineCall

\* what no engine call touches
outsideEngine == <<cacheVars, keyVars, threadVars, slast, laterVars>>

LoadModels ==
    /\ gen.pc = "idle"
    /\ \E dtype \in Dtypes, out \in LoadOutcomes : LoadModelsCall(dtype, out)
    /\ gen' = NoGen
    /\ UNCHANGED <<firstRun, outsideEngine>>

SetConditionals ==
    /\ gen.pc = "idle"
    /\ \E v \in CacheRecords : SetConditionalsCall(v)
    /\ gen' = NoGen
    /\ UNCHANGED <<firstRun, outsideEngine>>

PrepareConditionals ==
    /\ gen.pc = "idle"
    /\ \E samples \in PromptSamples, loadOk \in BOOLEAN, enc \in EncoderOutcomes :
         PrepareConditionalsCall(samples, loadOk, enc)
    /\ gen' = NoGen
    /\ UNCHANGED <<firstRun, outsideEngine>>

Generate ==
    /\ gen.pc = "idle"
    /\ \E tokenIds \in TokenInputs, maxNewTokens \in 0..MaxNewTokens, seed \in Seeds,
          embedOk \in BOOLEAN :
         GenerateBeginCall(tokenIds, maxNewTokens, seed, embedOk)
    /\ UNCHANGED <<firstRun, outsideEngine>>

GenerateStep ==
    /\ gen.pc = "loop"
    /\ \E embedOk \in BOOLEAN, lmOk \in BOOLEAN : GenerateStepCall(embedOk, lmOk)
    /\ UNCHANGED <<firstRun, outsideEngine>>

GenerateDecode ==
    /\ gen.pc = "decode"
    /\ \E decOk \in BOOLEAN : GenerateDecodeCall(decOk)
    /\ UNCHANGED <<firstRun, outsideEngine>>

NextEngine ==
    \/ LoadModels
    \/ SetConditionals
    \/ PrepareConditionals
    \/ Generate
    \/ GenerateStep
    \/ GenerateDecode

SpecEngine == InitEngine /\ [][NextEngine]_vars

----------------------------------------------------------------------------
(* A loaded engine on which Generate is called again and again; the first  *)
(* seeded call that reaches the decoder is kept for comparison.            *)

InitSeed ==
    /\ m_cache = [k \in CacheKeys |-> None]
    /\ dirIsFile = FALSE
    /\ dirExists = FALSE
    /\ disk = [p \in CachePaths |-> NoFile]
    /\ origin = [p \in CachePaths |-> None]
    /\ last = NoCall
    /\ conds = None
    /\ cut = -1
    /\ KeyIdle
    /\ LaterIdle
    /\ ThreadsIdle
    /\ slast = NoLoad
    /\ m_sessions = [n \in ModelNames |-> GetModelFilename(n, "fp32")]
    /\ m_modelsLoaded = TRUE
    /\ m_dtype = "fp32"
    /\ m_conds = CondsA
    /\ m_rng \in 0..(RngStates - 1)
    /\ m_lastError = ""
    /\ gen = NoGen
    /\ firstRun = None
    /\ elast = NoEngineCall

\* what a Generate call was given: its arguments, the conditionals, the models
CallInputs(g) ==
    [tokenIds |-> g.tokenIds, maxNewTokens |-> g.maxNewTokens, seed |-> g.seed,
     m_conds |-> g.before.m_conds, m_sessions |-> g.before.m_sessions]

SeedDecode ==
    /\ gen.pc = "decode"
    /\ \E decOk \in BOOLEAN : GenerateDecodeCall(decOk)
    /\ firstRun' = IF firstRun = None /\ gen.seed # 0
                   THEN [inputs |-> CallInputs(gen),
                         generatedTokens |-> gen.generatedTokens,
                         decoderTokens |-> gen'.decoderTokens]
                   ELSE firstRun
    /\ UNCHANGED outsideEngine

NextSeed ==
    \/ SetConditionals
    \/ Generate
    \/ GenerateStep
    \/ SeedDecode

SpecSeed == InitSeed /\ [][NextSeed]_vars

\* Generate is straight-line code run by its caller: once in the loop the
\* next iteration is taken, and after the loop the decoder part is
SpecEngineFair ==
    SpecEngine /\ WF_vars(GenerateStep) /\ WF_vars(GenerateDecode)

----------------------------------------------------------------------------
(* Logit post-processing: ChatterboxTTS::ApplyRepetitionPenalty, ApplyTopK  *)
(* and ApplyTopP.  A logits vector is a sequence of integers, entry t + 1   *)
(* holding the logit of token t; logits lie on a grid of LogitUnit so that  *)
(* the penalty's divisions are exact, and exp is taken to the base          *)
(* 2^(1/LogitUnit), which is exact on that grid.                            *)

\* size of the vocabulary: logits.size()
VocabSize == 3
\* longest token history handed to the penalty
MaxHistory == 3
\* top_p is a multiple of 1/ProbUnit
ProbUnit == 4
\* -std::numeric_limits<float>::infinity()
NegInf == -1000

RECURSIVE Pow2(_)
Pow2(n) == IF n <= 0 THEN 1 ELSE 2 * Pow2(n - 1)

LogitUnit == Pow2(MaxHistory)
LogitValues == {-LogitUnit, 0, LogitUnit}
LogitVectors == [1..VocabSize -> LogitValues]
\* token histories: tokens 0 and 1, and VocabSize which no logit belongs to
Histories == SeqsUpTo({0, 1, VocabSize}, MaxHistory)
Penalties == {1, 2}
TopKs == (-1)..(VocabSize + 1)
TopPs == 0..(ProbUnit + 1)

\* one turn of the loop of ApplyRepetitionPenalty, for one token of the history
PenalizeToken(logits, token, penalty) ==
    IF token >= 0 /\ token < Len(logits)
    THEN [logits EXCEPT ![token + 1] =
              IF logits[token + 1] < 0 THEN logits[token + 1] * penalty
              ELSE logits[token + 1] \div penalty]
    ELSE logits

\* ChatterboxTTS::ApplyRepetitionPenalty: the loop runs over the history,
\* one turn for every occurrence of a token
RECURSIVE ApplyRepetitionPenalty(_, _, _)
ApplyRepetitionPenalty(logits, generatedTokens, penalty) ==
    IF penalty = 1 \/ generatedTokens = <<>> THEN logits
    ELSE ApplyRepetitionPenalty(PenalizeToken(logits, Head(generatedTokens), penalty),
                                Tail(generatedTokens), penalty)

\* the orders std::partial_sort and std::sort may leave the indices in:
\* descending by logit, equal logits in any order
SortedDescending(logits) ==
    {order \in [1..Len(logits) -> 1..Len(logits)] :
        /\ \A i \in 1..Len(logits) : \E j \in 1..Len(logits) : order[j] = i
        /\ \A j \in 1..(Len(logits) - 1) : logits[order[j]] >= logits[order[j + 1]]}

\* the k-th largest logit: logits[indices[k - 1]] after the partial sort
Threshold(logits, k) == LET order == CHOOSE o \in SortedDescending(logits) : TRUE
                        IN  logits[order[k]]

\* a plausible slip of ApplyTopK: ties with the threshold are cut as well
ApplyTopKCutTies(logits, k) ==
    IF k <= 0 \/ k >= Len(logits) THEN logits
    ELSE [i \in 1..Len(logits) |->
             IF logits[i] <= Threshold(logits, k) THEN NegInf ELSE logits[i]]

\* ChatterboxTTS::ApplyTopK
ApplyTopK(logits, k) ==
    IF k <= 0 \/ k >= Len(logits) THEN logits
    ELSE [i \in 1..Len(logits) |->
             IF logits[i] < Threshold(logits, k) THEN NegInf ELSE logits[i]]

\* std::exp(logit - maxLogit), scaled to an integer; exp(-inf) is 0
ExpWeight(logit) ==
    IF logit = NegInf THEN 0 ELSE Pow2((logit + LogitUnit) \div LogitUnit)

\* cumSum after the first n indices of order, and sum, both in ExpWeight units
RECURSIVE CumWeight(_, _, _)
CumWeight(logits, order, n) ==
    IF n = 0 THEN 0 ELSE CumWeight(logits, order, n - 1) + ExpWeight(logits[order[n]])

\* cumSum > p after the first n indices, p = pNum / ProbUnit
Exceeds(logits, order, n, pNum) ==
    CumWeight(logits, order, n) * ProbUnit
        > pNum * CumWeight(logits, order, Len(logits))

\* a plausible slip of the cutoff: the crossing element is left out
CutoffIdxBeforeCrossing(logits, order, pNum) ==
    IF \E n \in 1..Len(logits) : Exceeds(logits, order, n, pNum)
    THEN (CHOOSE n \in 1..Len(logits) :
             /\ Exceeds(logits, order, n, pNum)
             /\ \A m \in 1..(n - 1) : ~Exceeds(logits, order, m, pNum)) - 1
    ELSE Len(logits)

\* cutoffIdx of ApplyTopP: one past the first index at which cumSum > p,
\* vocabSize if there is none
CutoffIdx(logits, order, pNum) ==
    IF \E n \in 1..Len(logits) : Exceeds(logits, order, n, pNum)
    THEN CHOOSE n \in 1..Len(logits) :
             /\ Exceeds(logits, order, n, pNum)
             /\ \A m \in 1..(n - 1) : ~Exceeds(logits, order, m, pNum)
    ELSE Len(logits)

\* ChatterboxTTS::ApplyTopP with std::sort leaving the indices in order
ApplyTopP(logits, order, pNum) ==
    IF pNum >= ProbUnit THEN logits
    ELSE [i \in 1..Len(logits) |->
             IF \E j \in (CutoffIdx(logits, order, pNum) + 1)..Len(logits) : order[j] = i
             THEN NegInf ELSE logits[i]]

\* what a sampling step records: the filter, its arguments, the logits
\* before and after
Sampled(op, before, generatedTokens, penalty, k, pNum, order, logits) ==
    [pc |-> op, before |-> before, generatedTokens |-> generatedTokens,
     penalty |-> penalty, k |-> k, pNum |-> pNum, order |-> order, logits |-> logits]

InitSampling ==
    /\ m_cache = [k \in CacheKeys |-> None]
    /\ dirIsFile = FALSE
    /\ dirExists = FALSE
    /\ disk = [p \in CachePaths |-> NoFile]
    /\ origin = [p \in CachePaths |-> None]
    /\ last = NoCall
    /\ conds = None
    /\ cut = -1
    /\ KeyIdle
    /\ ThreadsIdle /\ SessionsIdle /\ EngineIdle
    /\ ResolveIdle /\ DmIdle /\ MdIdle
    /\ \E z \in LogitVectors : samp = Sampled("in", z, <<>>, 1, 0, ProbUnit, <<>>, z)

nonSampVars == <<cacheVars, keyVars, threadVars, sessVars, engineVars, rv, dm, md>>

RepetitionPenalty ==
    /\ samp.pc = "in"
    /\ \E generatedTokens \in Histories, penalty \in Penalties :
          samp' = Sampled("penalty", samp.logits, generatedTokens, penalty, 0, ProbUnit, <<>>,
                          ApplyRepetitionPenalty(samp.logits, generatedTokens, penalty))
    /\ UNCHANGED nonSampVars

TopK ==
    /\ samp.pc = "in"
    /\ \E k \in TopKs :
          samp' = Sampled("topk", samp.logits, <<>>, 1, k, ProbUnit, <<>>,
                          ApplyTopK(samp.logits, k))
    /\ UNCHANGED nonSampVars

TopP ==
    /\ samp.pc \in {"in", "topk"}
    /\ \E pNum \in TopPs, order \in SortedDescending(samp.logits) :
          samp' = Sampled("topp", samp.logits, <<>>, 1, 0, pNum, order,
                          ApplyTopP(samp.logits, order, pNum))
    /\ UNCHANGED nonSampVars

NextSampling ==
    \/ RepetitionPenalty
    \/ TopK
    \/ TopP

SpecSampling == InitSampling /\ [][NextSampling]_vars

----------------------------------------------------------------------------
(* ResolveVoice of the command-line front end: the voice cache in front of  *)
(* the speech encoder.  The call is followed step by step - memory, disk,   *)
(* reference file, Put - and afterwards the cache is changed and Generate   *)
(* is run while the engine keeps the conditionals it was given.             *)

\* cache calls made after ResolveVoice has returned
MaxLater == 1

\* the voice names and paths handed to ResolveVoice
VoicePaths == {<<"a">>, <<"w", Sep, "a", Dot, "w">>, <<"a", Sep>>}

\* lengths of the reference audio: just too short, and just long enough
ReferenceSamples == {MinPromptSeconds * SAMPLE_RATE - 1, MinPromptSeconds * SAMPLE_RATE}

\* a blob file cut short after its magic number
CutBlob == SubSeq(Blob(CondsB), 1, SizeofU32)

Resolving(pc, voicePath, k, tiers, memHit, onDisk, loaded, encoderRan, set, ret, later) ==
    [pc |-> pc, voicePath |-> voicePath, key |-> k, tiers |-> tiers, memHit |-> memHit,
     onDisk |-> onDisk, loaded |-> loaded, encoderRan |-> encoderRan, set |-> set,
     ret |-> ret, later |-> later]

engineCore == <<m_sessions, m_modelsLoaded, m_dtype, m_conds, m_rng, m_lastError, elast>>
outsideResolve == <<keyVars, threadVars, slast, firstRun, samp, dm, md>>

InitResolve ==
    /\ m_cache \in [CacheKeys -> {None, CondsA}]
    /\ dirIsFile \in BOOLEAN
    /\ dirExists = TRUE
    /\ \E f \in IF dirIsFile THEN {NoFile} ELSE {NoFile, Blob(CondsB), CutBlob} :
          disk = [p \in CachePaths |-> f]
    /\ origin = [p \in CachePaths |-> IF disk[p] = NoFile THEN None ELSE CondsB]
    /\ last = NoCall
    /\ conds = None
    /\ cut = -1
    /\ KeyIdle
    /\ ThreadsIdle
    /\ slast = NoLoad
    /\ m_sessions = [n \in ModelNames |-> GetModelFilename(n, "fp32")]
    /\ m_modelsLoaded = TRUE
    /\ m_dtype = "fp32"
    /\ m_conds = EmptyConds
    /\ m_rng = 0
    /\ m_lastError = ""
    /\ gen = NoGen
    /\ firstRun = None
    /\ elast = NoEngineCall
    /\ SampIdle /\ DmIdle /\ MdIdle
    /\ rv = Resolving("idle", <<>>, <<>>, <<>>, FALSE, FALSE, FALSE, FALSE, None, FALSE, 0)

\* a plausible slip of step 1: the memory tier is skipped
ResolveMemoryCallSkipped(voicePath) ==
    LET k == ExtractKey(voicePath)
    IN  /\ rv' = Resolving("disk", voicePath, k, <<"memory">>, FALSE, FALSE, FALSE,
                           FALSE, None, FALSE, 0)
        /\ UNCHANGED engineCore

\* ResolveVoice, step 1: the key and the memory tier
ResolveMemoryCall(voicePath) ==
    LET k == ExtractKey(voicePath)
    IN  IF Get(k) # None
        THEN /\ SetConditionalsCall(Get(k))
             /\ rv' = Resolving("done", voicePath, k, <<"memory">>, TRUE, FALSE, FALSE,
                                FALSE, Get(k), TRUE, 0)
        ELSE /\ rv' = Resolving("disk", voicePath, k, <<"memory">>, FALSE, FALSE, FALSE,
                                FALSE, None, FALSE, 0)
             /\ UNCHANGED engineCore

\* ResolveVoice, step 2: the disk tier; LoadFromDisk ends with outcome out
ResolveDiskCall(out) ==
    IF ~ExistsOnDisk(rv.key)
    THEN /\ out = NullOpt
         /\ rv' = [rv EXCEPT !.pc = "file", !.tiers = Append(@, "disk")]
         /\ UNCHANGED <<cacheVars, engineCore>>
    ELSE /\ LoadFromDiskCall(rv.key, out)
         /\ IF out = Throw
            THEN /\ rv' = [rv EXCEPT !.pc = "done", !.tiers = Append(@, "disk"),
                                     !.onDisk = TRUE, !.ret = "threw"]
                 /\ UNCHANGED engineCore
            ELSE IF m_cache'[rv.key] # None /\ IsRecord(out)
            THEN /\ SetConditionalsCall(m_cache'[rv.key])
                 /\ rv' = [rv EXCEPT !.pc = "done", !.tiers = Append(@, "disk"),
                                     !.onDisk = TRUE, !.loaded = TRUE,
                                     !.set = m_cache'[rv.key], !.ret = TRUE]
            ELSE /\ rv' = [rv EXCEPT !.pc = "file", !.tiers = Append(@, "disk"),
                                     !.onDisk = TRUE]
                 /\ UNCHANGED engineCore

\* ResolveVoice, step 3: the reference file and the speech encoder
ResolveFileCall(found, samples, loadOk, enc) ==
    IF ~found
    THEN /\ rv' = [rv EXCEPT !.pc = "done", !.tiers = Append(@, "file"), !.ret = FALSE]
         /\ UNCHANGED engineCore
    ELSE /\ PrepareConditionalsCall(samples, loadOk, enc)
         /\ rv' = [rv EXCEPT !.pc = IF elast'.ret THEN "put" ELSE "done",
                             !.tiers = Append(@, "file"),
                             !.encoderRan = elast'.ran, !.ret = FALSE]

\* ResolveVoice, step 4: the new conditionals go into the cache
ResolvePutCall(io) ==
    /\ PutCall(rv.key, m_conds, TRUE, io)
    /\ rv' = [rv EXCEPT !.pc = "done",
                        !.ret = IF io.kind = "mkdir_throw" THEN "threw" ELSE TRUE]

ResolveMemory ==
    /\ rv.pc = "idle"
    /\ \E voicePath \in VoicePaths : ResolveMemoryCall(voicePath)
    /\ UNCHANGED <<cacheVars, gen, outsideResolve>>

ResolveDisk ==
    /\ rv.pc = "disk"
    /\ \E out \in Load(disk[GetCachePath(rv.key)]) : ResolveDiskCall(out)
    /\ UNCHANGED <<gen, outsideResolve>>

ResolveFile ==
    /\ rv.pc = "file"
    /\ \E found \in BOOLEAN, samples \in ReferenceSamples, loadOk \in BOOLEAN,
          enc \in EncoderOutcomes : ResolveFileCall(found, samples, loadOk, enc)
    /\ UNCHANGED <<cacheVars, gen, outsideResolve>>

ResolvePut ==
    /\ rv.pc = "put"
    /\ \E io \in SaveOutcomes : ResolvePutCall(io)
    /\ UNCHANGED <<engineCore, gen, outsideResolve>>

\* the cache is used again once the voice is resolved and before Generate
Later ==
    /\ rv.pc = "done"
    /\ rv.later < MaxLater
    /\ gen = NoGen
    /\ rv' = [rv EXCEPT !.later = @ + 1]
    /\ UNCHANGED <<engineCore, gen, outsideResolve>>

PutLater ==
    /\ Later
    /\ \E k \in CacheKeys, v \in CacheRecords, io \in SaveOutcomes : PutCall(k, v, TRUE, io)

LoadFromDiskLater ==
    /\ Later
    /\ \E k \in CacheKeys : \E out \in Load(disk[GetCachePath(k)]) : LoadFromDiskCall(k, out)

RemoveLater ==
    /\ Later
    /\ \E k \in CacheKeys : RemoveCall(k, FALSE)

ClearLater ==
    /\ Later
    /\ ClearCall({})

ClearMemoryLater ==
    /\ Later
    /\ ClearMemoryCall

\* Generate with the resolved voice
GenerateResolved ==
    /\ rv.pc = "done"
    /\ gen.pc = "idle"
    /\ \E embedOk \in BOOLEAN : GenerateBeginCall(<<10>>, 1, 1, embedOk)
    /\ UNCHANGED <<firstRun, outsideEngine>>

NextResolve ==
    \/ ResolveMemory
    \/ ResolveDisk
    \/ ResolveFile
    \/ ResolvePut
    \/ PutLater
    \/ LoadFromDiskLater
    \/ RemoveLater
    \/ ClearLater
    \/ ClearMemoryLater
    \/ GenerateResolved
    \/ GenerateStep
    \/ GenerateDecode

SpecResolve == InitResolve /\ [][NextResolve]_vars

----------------------------------------------------------------------------
(* DownloadManager: DownloadFileAsync on the caller's thread and            *)
(* PerformDownload on a thread of the pool, any number of them at once.     *)
(* A directory entry names a file; the file an operation opened stays the   *)
(* one it writes to, whatever happens to the entry afterwards.              *)

\* calls of DownloadFileAsync
MaxCalls == 2
Calls == 1..MaxCalls
TargetPaths == {"f", "g"}

\* no entry at a path; the file that was at a target path from the start;
\* the file operation c created is file c
NoEntry == [tag |-> "noentry"]
OldFile == [tag |-> "old"]
Entries == {NoEntry, OldFile} \cup {[tag |-> "file", of |-> c] : c \in Calls}
FileOf(c) == [tag |-> "file", of |-> c]

NoOperation ==
    [pc |-> "none", downloadId |-> 0, targetPath |-> "", callbacks |-> 0,
     activeAtCallback |-> FALSE, success |-> FALSE]

Operation(pc, downloadId, targetPath, callbacks, activeAtCallback, success) ==
    [pc |-> pc, downloadId |-> downloadId, targetPath |-> targetPath,
     callbacks |-> callbacks, activeAtCallback |-> activeAtCallback, success |-> success]

\* std::find and erase on m_activeDownloads
Erase(active, downloadId) == SelectSeq(active, LAMBDA d : d # downloadId)
Contains(active, downloadId) == \E i \in 1..Len(active) : active[i] = downloadId

\* DownloadManager::GetActiveDownloadCount
GetActiveDownloadCount == IF dm.m_initialized THEN Len(dm.m_activeDownloads) ELSE 0

nonDmVars == <<cacheVars, keyVars, threadVars, sessVars, engineVars, samp, rv, md>>

InitDownload ==
    /\ m_cache = [k \in CacheKeys |-> None]
    /\ dirIsFile = FALSE
    /\ dirExists = FALSE
    /\ disk = [p \in CachePaths |-> NoFile]
    /\ origin = [p \in CachePaths |-> None]
    /\ last = NoCall
    /\ conds = None
    /\ cut = -1
    /\ KeyIdle
    /\ ThreadsIdle /\ SessionsIdle /\ EngineIdle
    /\ SampIdle /\ ResolveIdle /\ MdIdle
    /\ \E initialized \in BOOLEAN, old \in [TargetPaths -> {NoEntry, OldFile}] :
          dm = [pc |-> "run", m_initialized |-> initialized, m_nextDownloadId |-> 1,
                m_activeDownloads |-> <<>>,
                operation |-> [c \in Calls |-> NoOperation],
                target |-> old,
                temp |-> [t \in TargetPaths |-> NoEntry],
                content |-> [c \in Calls |-> "none"],
                step |-> [op |-> "init", call |-> 0]]

\* DownloadManager::Initialize; curl_global_init succeeds or does not
InitializeCall(curlOk) ==
    dm' = [dm EXCEPT !.m_initialized = dm.m_initialized \/ curlOk,
                     !.step = [op |-> "Initialize", call |-> 0]]

\* DownloadManager::DownloadFileAsync, call number c.  When enqueue throws the
\* callback runs while the id, pushed before, is still in m_activeDownloads;
\* the id is erased after the callback has returned.
DownloadFileAsyncCall(c, targetPath, mkdirOk, enqueueOk) ==
    IF ~dm.m_initialized
    THEN dm' = [dm EXCEPT !.operation[c] = Operation("done", 0, targetPath, 1, FALSE, FALSE),
                          !.step = [op |-> "DownloadFileAsync", call |-> c]]
    ELSE LET downloadId == dm.m_nextDownloadId
         IN  dm' = [dm EXCEPT
                 !.m_nextDownloadId = downloadId + 1,
                 !.operation[c] =
                     IF ~mkdirOk THEN Operation("done", downloadId, targetPath, 1, FALSE, FALSE)
                     ELSE IF ~enqueueOk
                     THEN Operation("done", downloadId, targetPath, 1, TRUE, FALSE)
                     ELSE Operation("queued", downloadId, targetPath, 0, FALSE, FALSE),
                 !.m_activeDownloads =
                     IF mkdirOk /\ enqueueOk THEN Append(@, downloadId) ELSE @,
                 !.step = [op |-> "DownloadFileAsync", call |-> c]]

\* the end of every path of PerformDownload: the id is erased from
\* m_activeDownloads, then the callback runs
Completed(op, active, success) ==
    Operation("done", op.downloadId, op.targetPath, op.callbacks + 1,
              Contains(Erase(active, op.downloadId), op.downloadId), success)

\* PerformDownload up to curl_easy_init: the leftover temp file is removed,
\* the temp file is opened, the handle is made.  removeFails: the removal the
\* path reaches last fails - of the leftover when the file cannot be opened,
\* of the new file when there is no handle; both are ignored by the code.
PerformOpenCall(c, openOk, curlOk, removeFails) ==
    LET op == dm.operation[c]
        t == op.targetPath
    IN  IF ~openOk
        THEN dm' = [dm EXCEPT
                 !.temp[t] = IF removeFails THEN @ ELSE NoEntry,
                 !.m_activeDownloads = Erase(@, op.downloadId),
                 !.operation[c] = Completed(op, dm.m_activeDownloads, FALSE),
                 !.step = [op |-> "open", call |-> c]]
        ELSE IF ~curlOk
        THEN dm' = [dm EXCEPT
                 !.temp[t] = IF removeFails THEN FileOf(c) ELSE NoEntry,
                 !.content[c] = "empty",
                 !.m_activeDownloads = Erase(@, op.downloadId),
                 !.operation[c] = Completed(op, dm.m_activeDownloads, FALSE),
                 !.step = [op |-> "open", call |-> c]]
        ELSE dm' = [dm EXCEPT
                 !.temp[t] = FileOf(c),
                 !.content[c] = "empty",
                 !.operation[c].pc = "transfer",
                 !.step = [op |-> "open", call |-> c]]

TransferOutcomes == {"ok", "error", "cancelled"}

\* PerformDownload from curl_easy_perform to its end.  The transfer writes
\* to the file the operation opened; remove and rename act on whatever the
\* temp path names by then.
PerformTransferCall(c, outcome, renameOk, removeFails) ==
    LET op == dm.operation[c]
        t == op.targetPath
        renamed == outcome = "ok" /\ renameOk /\ dm.temp[t] # NoEntry
    IN  dm' = [dm EXCEPT
            !.content[c] = IF outcome = "ok" THEN "complete" ELSE "partial",
            !.target[t] = IF renamed THEN dm.temp[t] ELSE @,
            !.temp[t] = IF renamed \/ ~removeFails THEN NoEntry ELSE @,
            !.m_activeDownloads = Erase(@, op.downloadId),
            !.operation[c] = Completed(op, dm.m_activeDownloads, renamed),
            !.step = [op |-> "transfer", call |-> c, outcome |-> outcome]]

Initialize ==
    /\ \E curlOk \in BOOLEAN : InitializeCall(curlOk)
    /\ UNCHANGED nonDmVars

DownloadFileAsync ==
    /\ \E c \in Calls, targetPath \in TargetPaths, mkdirOk \in BOOLEAN, enqueueOk \in BOOLEAN :
          /\ dm.operation[c].pc = "none"
          /\ \A b \in 1..(c - 1) : dm.operation[b].pc # "none"
          /\ DownloadFileAsyncCall(c, targetPath, mkdirOk, enqueueOk)
    /\ UNCHANGED nonDmVars

PerformOpen ==
    /\ \E c \in Calls, openOk \in BOOLEAN, curlOk \in BOOLEAN, removeFails \in BOOLEAN :
          /\ dm.operation[c].pc = "queued"
          /\ removeFails => \/ openOk /\ ~curlOk
                            \/ ~openOk /\ dm.temp[dm.operation[c].targetPath] # NoEntry
          /\ PerformOpenCall(c, openOk, curlOk, removeFails)
    /\ UNCHANGED nonDmVars

PerformTransfer ==
    /\ \E c \in Calls, outcome \in TransferOutcomes, renameOk \in BOOLEAN,
          removeFails \in BOOLEAN :
          /\ dm.operation[c].pc = "transfer"
          /\ ~renameOk => outcome = "ok"
          /\ removeFails => (dm.temp[dm.operation[c].targetPath] # NoEntry
                             /\ ~(outcome = "ok" /\ renameOk))
          /\ PerformTransferCall(c, outcome, renameOk, removeFails)
    /\ UNCHANGED nonDmVars

NextDownload ==
    \/ Initialize
    \/ DownloadFileAsync
    \/ PerformOpen
    \/ PerformTransfer

SpecDownload == InitDownload /\ [][NextDownload]_vars

----------------------------------------------------------------------------
(* ModelDownloader: DownloadWithCurl writes straight to localPath.          *)

LocalPaths == {"m", "t"}

\* what is at a local path: nothing, a file that was there from the start,
\* or what a download left: an empty file, the body of an error response or
\* a cut transfer, or the whole file
FileStates == {"absent", "present", "empty", "partial", "complete"}

HTTP_OK == 200
HttpCodes == {0, HTTP_OK, 404}

\* how a DownloadWithCurl call goes: the output file opens or not, a curl
\* handle is made or not, the transfer ends with CURLE_OK or not, the
\* response code, and whether fs::remove(localPath) removes the file or throws
CurlOutcomes ==
    [openOk : BOOLEAN, curlOk : BOOLEAN, resOk : BOOLEAN, httpCode : HttpCodes,
     removeOk : BOOLEAN]

\* DownloadWithCurl: its return value
DownloadWithCurlReturns(out) ==
    out.openOk /\ out.curlOk /\ out.resOk /\ out.httpCode = HTTP_OK

\* DownloadWithCurl ends by the exception of fs::remove instead of returning
DownloadWithCurlThrows(out) ==
    out.openOk /\ out.curlOk /\ ~(out.resOk /\ out.httpCode = HTTP_OK) /\ ~out.removeOk

\* DownloadWithCurl: the file at localPath afterwards.  std::ofstream creates
\* or truncates the file as soon as it opens; the two returns before the
\* transfer do not remove it.
FileAfterDownload(before, out) ==
    IF ~out.openOk THEN before
    ELSE IF ~out.curlOk THEN "empty"
    ELSE IF ~out.resOk THEN (IF out.removeOk THEN "absent" ELSE "partial")
    ELSE IF out.httpCode # HTTP_OK THEN (IF out.removeOk THEN "absent" ELSE "partial")
    ELSE "complete"

MdCalled(op, localPath, before, ret, threw, downloaded) ==
    [op |-> op, localPath |-> localPath, before |-> before, ret |-> ret,
     threw |-> threw, downloaded |-> downloaded]

\* ModelDownloader::DownloadWithCurl / DownloadFile
DownloadWithCurlCall(localPath, out) ==
    md' = [pc |-> "run",
           file |-> [md.file EXCEPT ![localPath] = FileAfterDownload(@, out)],
           last |-> MdCalled("DownloadWithCurl", localPath, md.file[localPath],
                             DownloadWithCurlReturns(out), DownloadWithCurlThrows(out), TRUE)]

\* ModelDownloader::DownloadIfNotExists
DownloadIfNotExistsCall(localPath, out) ==
    IF md.file[localPath] # "absent"
    THEN md' = [md EXCEPT !.last = MdCalled("DownloadIfNotExists", localPath,
                                            md.file[localPath], TRUE, FALSE, FALSE)]
    ELSE md' = [pc |-> "run",
                file |-> [md.file EXCEPT ![localPath] = FileAfterDownload(@, out)],
                last |-> MdCalled("DownloadIfNotExists", localPath, md.file[localPath],
                                  DownloadWithCurlReturns(out), DownloadWithCurlThrows(out),
                                  TRUE)]

nonMdVars == <<cacheVars, keyVars, threadVars, sessVars, engineVars, samp, rv, dm>>

\* an outcome says only what the call reaches: no transfer without a file
\* and a handle, no removal after a good transfer
OutcomeApplies(out) ==
    /\ ~(out.openOk /\ out.curlOk) => (out.resOk /\ out.httpCode = HTTP_OK /\ out.removeOk)
    /\ (out.resOk /\ out.httpCode = HTTP_OK) => out.removeOk

InitModels ==
    /\ m_cache = [k \in CacheKeys |-> None]
    /\ dirIsFile = FALSE
    /\ dirExists = FALSE
    /\ disk = [p \in CachePaths |-> NoFile]
    /\ origin = [p \in CachePaths |-> None]
    /\ last = NoCall
    /\ conds = None
    /\ cut = -1
    /\ KeyIdle
    /\ ThreadsIdle /\ SessionsIdle /\ EngineIdle
    /\ SampIdle /\ ResolveIdle /\ DmIdle
    /\ \E file \in [LocalPaths -> {"absent", "present"}] :
          md = [pc |-> "run", file |-> file,
                last |-> MdCalled("init", "", "absent", TRUE, FALSE, FALSE)]

DownloadWithCurl ==
    /\ \E localPath \in LocalPaths, out \in CurlOutcomes :
          /\ OutcomeApplies(out)
          /\ DownloadWithCurlCall(localPath, out)
    /\ UNCHANGED nonMdVars

DownloadIfNotExists ==
    /\ \E localPath \in LocalPaths, out \in CurlOutcomes :
          /\ OutcomeApplies(out)
          /\ DownloadIfNotExistsCall(localPath, out)
    /\ UNCHANGED nonMdVars

NextModels ==
    \/ DownloadWithCurl
    \/ DownloadIfNotExists

SpecModels == InitModels /\ [][NextModels]_vars

----------------------------------------------------------------------------
(* Claims *)

\* the call c is one that may change the entry of key k: Put, LoadFromDisk or
\* Remove of k, Clear, ClearMemory, LoadAllFromDisk (LoadFromDisk of every
\* file), or the construction of a new cache
TouchesKey(c, k) ==
    \/ c.op \in {"Put", "LoadFromDisk", "Remove"} /\ c.key = k
    \/ c.op \in {"Clear", "ClearMemory", "LoadAllFromDisk", "Restart"}

\* the entry of every key changes only in a call that touches the key
EntriesKeptUntilTouched ==
    \A k \in CacheKeys : m_cache'[k] # m_cache[k] => TouchesKey(last', k)

\* C1 as stated: after Put(k, v, saveToDisk) of any record v, Get(k) is v,
\* and the entry stays until a call that touches k
C1_ReadAfterWrite_AnyRecord ==
    [][/\ last'.op = "Put" => m_cache'[last'.key] = last'.conds
       /\ EntriesKeptUntilTouched]_vars

\* C1, amended: after Put(k, v, saveToDisk) of a record v that IsValid accepts,
\* whatever saveToDisk and whatever Put returned, Get(k) is v, and the entry
\* stays until a call that touches k; Put of a record IsValid rejects returns
\* false and leaves every entry as it was
C1_ReadAfterWrite ==
    [][/\ last'.op = "Put" /\ IsValid(last'.conds)
            => m_cache'[last'.key] = last'.conds
       /\ last'.op = "Put" /\ ~IsValid(last'.conds)
            => ~last'.ret /\ m_cache' = m_cache
       /\ EntriesKeptUntilTouched]_vars

\* Put of CondsB without a disk write has returned and Get gives CondsB, while
\* the other key holds CondsA
C1_Witness ==
    /\ last.op = "Put" /\ ~last.save /\ last.conds = CondsB /\ last.key = <<"a">>
    /\ Get(<<"a">>) = CondsB
    /\ Get(<<>>) = CondsA

\* C2 as stated: when the disk write of Put(k, v, TRUE) fails (the directory
\* cannot be created, the file cannot be opened, the stream fails), Put returns
\* false and the entry of k in memory is v
C2_FailedSaveReturnsFailure ==
    /\ last.op = "Put" /\ last.save
    /\ last.io \in {"mkdir_fail", "mkdir_throw", "open_fail", "write_fail"}
    => /\ ~last.threw /\ ~last.ret
       /\ Has(last.key) /\ Get(last.key) = last.conds

\* the disk tier of the round trip is as Put left it: no file when Save
\* refused the record, else the file Save wrote, not truncated, not foreign
BlobFileAsSaved ==
    /\ cut = -1
    /\ \/ disk[GetCachePath(BlobKey)] = NoFile
       \/ origin[GetCachePath(BlobKey)] = conds

\* C3 as stated: any record saved by Put(k, v, TRUE) and loaded by
\* LoadFromDisk in a new cache is in memory again, equal to v
C3_RoundTrip_AnyRecord ==
    last.op = "LoadFromDisk" /\ BlobFileAsSaved
        => last.ret /\ Get(BlobKey) = conds

\* C3, amended: a record that IsValid accepts, saved by Put(k, v, TRUE) and
\* loaded by LoadFromDisk in a new cache, is in memory again, equal to v in its
\* four arrays and four shapes; for a record IsValid rejects there is no file
\* and the load is a miss
C3_RoundTrip ==
    last.op = "LoadFromDisk" /\ BlobFileAsSaved
        => IF IsValid(conds)
           THEN last.ret /\ ~last.threw /\ Get(BlobKey) = conds
           ELSE /\ disk[GetCachePath(BlobKey)] = NoFile
                /\ ~last.ret /\ ~last.threw /\ ~Has(BlobKey)

\* a record with every array and every shape non-empty made the round trip
C3_Witness ==
    /\ last.op = "LoadFromDisk" /\ BlobFileAsSaved /\ last.ret
    /\ IsValid(conds)
    /\ conds.speakerEmbeddings # <<>> /\ conds.speakerFeatures # <<>>
    /\ conds.condEmbShape # <<>> /\ conds.promptTokenShape # <<>>
    /\ conds.speakerEmbeddingsShape # <<>> /\ conds.speakerFeaturesShape # <<>>
    /\ Get(BlobKey) = conds

\* file f has a whole header whose magic is not "COND" or whose version is not 1
BadFormat(f) ==
    /\ f # NoFile
    /\ Len(f) >= SizeofU32 + SizeofU32
    /\ \/ SubSeq(f, 1, 4) # <<68, 78, 79, 67>>
       \/ SubSeq(f, 5, 8) # <<1, 0, 0, 0>>

\* C4: LoadFromDisk(k) on a file with a foreign magic or version returns
\* false, throws nothing and leaves the memory tier as it was
C4_FormatMismatchIsMiss ==
    [][last'.op = "LoadFromDisk" /\ BadFormat(disk[GetCachePath(last'.key)])
        => ~last'.ret /\ ~last'.threw /\ m_cache' = m_cache]_vars

\* LoadFromDisk has missed on a foreign version and the entry that was in
\* memory is still there
C4_Witness ==
    /\ last.op = "LoadFromDisk" /\ ~last.ret
    /\ BadFormat(disk[GetCachePath(BlobKey)])
    /\ SubSeq(disk[GetCachePath(BlobKey)], 1, 4) = <<68, 78, 79, 67>>
    /\ IsRecord(conds) /\ Get(BlobKey) = conds

\* C5 as stated: on a strict prefix of a blob, Load returns failure and
\* LoadFromDisk returns false and installs nothing
C5_TruncatedBlobIsAMiss ==
    cut >= 0 =>
        /\ Load(disk[GetCachePath(BlobKey)]) = {NullOpt}
        /\ last.op = "LoadFromDisk" => ~last.ret /\ ~last.threw /\ ~Has(BlobKey)

\* C6 as stated: every file ExistsOnDisk reports is the complete blob of a
\* record (the claim names the records passed to Put for the key, which are
\* among the valid records)
C6_DiskFilesAreCompleteBlobs ==
    \A k \in CacheKeys :
        ExistsOnDisk(k) =>
            \E v \in CacheRecords : IsValid(v) /\ disk[GetCachePath(k)] = Blob(v)

\* C7 as stated: ExtractKey(ExtractKey(s)) = ExtractKey(s)
C7_ExtractKeyIdempotent == rekey # Unset => rekey = key

\* C8 as stated: the stem when s has an extension, s itself when it has none
C8_StemOrUnchanged ==
    key # Unset =>
        /\ HasExtension(pathOrKey) => key = Stem(pathOrKey)
        /\ ~HasExtension(pathOrKey) => key = pathOrKey

\* C8, amended: the stem when s has an extension; when it has none, the last
\* path component, which is s itself only when s has no directory part; so
\* "a/w.a", "w.a" and "w" all give "w"
C8_StemOrLastComponent ==
    key # Unset =>
        /\ HasExtension(pathOrKey) => key = Stem(pathOrKey)
        /\ ~HasExtension(pathOrKey) =>
             key = SubSeq(pathOrKey, LastIndexOf(pathOrKey, Sep) + 1, Len(pathOrKey))
        /\ ~HasExtension(pathOrKey) /\ LastIndexOf(pathOrKey, Sep) = 0 => key = pathOrKey
        /\ pathOrKey \in {<<"a", Sep, "w", Dot, "a">>, <<"w", Dot, "a">>, <<"w">>}
             => key = <<"w">>

\* a path with a directory part and no extension gave its last component
C8_Witness == pathOrKey = <<"a", Sep, "w">> /\ key = <<"w">>

C10_ClearEmptiesBothTiers ==
    [][/\ last'.op = "Clear" /\ ~last'.threw /\ last'.failed = {}
            => Size' = 0 /\ \A k \in CacheKeys : ~ExistsOnDisk(k)'
       /\ last.op = "Clear" /\ ~last.threw /\ last.failed = {}
          /\ last'.op = "LoadAllFromDisk" => last'.count = 0
       /\ last'.op = "ClearMemory" => Size' = 0 /\ disk' = disk]_vars

\* C11 as stated: while a thread is inside Put, Remove, Clear or LoadFromDisk
\* no other thread is inside any call of the same cache, and no Get or Has
\* looks at the map while a writer is changing it
C11_WritersAreExclusive ==
    /\ \A t \in Threads : \A u \in Threads \ {t} :
          IsWriter(running[t]) => running[u] = Outside
    /\ \A t \in Threads : seen[t] # NoGet => seen[t].writers = {}

\* the element count a shape header announces
RECURSIVE ShapeProduct(_)
ShapeProduct(shape) ==
    IF shape = <<>> THEN 1 ELSE Head(shape) * ShapeProduct(Tail(shape))

\* a record whose four arrays and four shapes are non-empty and agree
Complete(v) ==
    /\ v.condEmb # <<>> /\ v.promptToken # <<>>
    /\ v.speakerEmbeddings # <<>> /\ v.speakerFeatures # <<>>
    /\ v.condEmbShape # <<>> /\ v.promptTokenShape # <<>>
    /\ v.speakerEmbeddingsShape # <<>> /\ v.speakerFeaturesShape # <<>>
    /\ Len(v.condEmb) = ShapeProduct(v.condEmbShape)
    /\ Len(v.promptToken) = ShapeProduct(v.promptTokenShape)
    /\ Len(v.speakerEmbeddings) = ShapeProduct(v.speakerEmbeddingsShape)
    /\ Len(v.speakerFeatures) = ShapeProduct(v.speakerFeaturesShape)

\* C12 as stated: IsValid holds exactly for the records whose four arrays
\* and four shapes are non-empty and consistent, so Put accepts a record
\* (returns true and keeps it) exactly when the record is such a one
C12_ValidIffComplete ==
    last.op = "Put" =>
        /\ IsValid(last.conds) <=> Complete(last.conds)
        /\ last.ret <=> Complete(last.conds)
        /\ Has(last.key) <=> Complete(last.conds)

\* C17 as stated: LoadModel under a name that already has a session is
\* rejected: it does not report success, and the first session stays
C17_SecondLoadRejected ==
    slast.op = "LoadModel" /\ slast.already =>
        /\ ~slast.ret \/ slast.threw
        /\ IsModelLoaded(slast.name)

\* a Generate call returns at this step
GenerateReturns == gen' # gen /\ gen'.pc = "idle" /\ gen'.returned # "none"

\* C13: a Generate called on an engine that is not ready, or whose
\* conditionals are not valid, or with no token, returns an empty buffer,
\* runs neither the embedder nor the language model nor the decoder, and
\* reports the first failing check in the order not ready, conditionals,
\* tokens
C13_RefusedBeforeAnyModel ==
    [][gen.pc = "idle" /\ GenerateReturns
         /\ (~IsReady \/ ~IsValid(m_conds) \/ gen'.tokenIds = <<>>)
        => /\ gen'.returned = "empty"
           /\ gen'.embedRuns = 0 /\ gen'.lmRuns = 0 /\ gen'.decoderRuns = 0
           /\ m_lastError' = IF ~IsReady THEN "Models not loaded"
                             ELSE IF ~IsValid(m_conds)
                             THEN "Voice conditionals not prepared"
                             ELSE "No input tokens"]_vars

\* a call with no token was refused on an engine that is not ready either,
\* and reported the models
C13_Witness ==
    /\ gen.pc = "idle" /\ gen.returned = "empty"
    /\ gen.tokenIds = <<>> /\ ~gen.before.ready
    /\ ~IsValid(gen.before.m_conds)
    /\ m_lastError = "Models not loaded"

\* C14 as stated: a Generate call that fails at whatever stage returns no
\* audio and leaves the conditionals, the sessions, the ready flag, the
\* variant and the generator as they were when the call began
C14_FailedGenerateChangesNothing ==
    [][GenerateReturns /\ gen'.returned = "empty" => EngineState' = gen'.before]_vars

C16_SeedDeterminism ==
    /\ firstRun # None
    /\ gen.pc = "idle" /\ gen.decoderRuns = 1 /\ gen.seed # 0
    /\ CallInputs(gen) = firstRun.inputs
    => /\ gen.generatedTokens = firstRun.generatedTokens
       /\ gen.decoderTokens = firstRun.decoderTokens

\* a second seeded call with the same inputs has reached the decoder after at
\* least two draws, having begun with the generator in another state than
\* the one its seed gives
C16_Witness ==
    /\ firstRun # None
    /\ gen.pc = "idle" /\ gen.decoderRuns = 1 /\ gen.seed # 0
    /\ CallInputs(gen) = firstRun.inputs
    /\ gen.before.m_rng # SeedRng(gen.seed)
    /\ Len(gen.generatedTokens) >= 3

\* C18: the tokens given to the decoder are the prompt tokens, then the
\* generated tokens without the start token and without a stop token at the
\* end, then three silence tokens; with n speech tokens that is
\* |prompt_token| + n + 3 tokens, n being max_new_tokens when no stop token
\* was sampled
C18_DecoderInputAssembly ==
    gen.decoderRuns = 1 =>
        LET g == gen.generatedTokens
            p == gen.before.m_conds.promptToken
            d == gen.decoderTokens
            stopped == g[Len(g)] = 6562
            n == IF stopped THEN Len(g) - 2 ELSE Len(g) - 1
        IN  /\ g[1] = 6561
            /\ Len(d) = Len(p) + n + 3
            /\ \A i \in 1..Len(p) : d[i] = p[i]
            /\ \A i \in 1..n : d[Len(p) + i] = g[i + 1] /\ g[i + 1] # 6562
            /\ \A i \in 1..3 : d[Len(p) + n + i] = 4299
            /\ ~stopped => n = gen.maxNewTokens
            /\ stopped => n = gen.lmRuns - 1

\* the decoder was given a sequence whose generation stopped on a stop token
\* after at least one speech token
C18_Witness ==
    /\ gen.decoderRuns = 1
    /\ Len(gen.generatedTokens) >= 3
    /\ gen.generatedTokens[Len(gen.generatedTokens)] = 6562
    /\ Len(gen.decoderTokens) = Len(gen.before.m_conds.promptToken) + Len(gen.generatedTokens) + 1

\* C19: at every step after the first, the tensor bound to each
\* past_key_values slot is the present tensor the previous step returned for
\* that slot, and it is no longer held by the cache once bound; the empty
\* [1, 16, 0, 64] tensor is bound at step 0 only
C19_KvHandOver ==
    \A n \in 1..Len(gen.lmIn) : \A k \in KvSlots :
        /\ n = 1 => gen.lmIn[n][k] = [t |-> "empty", shape |-> <<1, 16, 0, 64>>]
        /\ n > 1 => /\ n - 1 <= Len(gen.lmOut)
                    /\ gen.lmIn[n][k] = gen.lmOut[n - 1][k]
                    /\ gen.lmIn[n][k].t = "present"
                    /\ gen.lmIn[n][k].step = n - 2 /\ gen.lmIn[n][k].slot = k
        /\ gen.pc = "loop" /\ n = Len(gen.lmIn) => gen.kvCacheValues[k] # gen.lmIn[n][k]

\* the language model has run three times in one call
C19_Witness ==
    /\ Len(gen.lmIn) >= 3
    /\ gen.lmIn[3][1] = gen.lmOut[2][1]

\* C20: the loop of Generate ends; the language model runs at most
\* max_new_tokens times in a call; the generated sequence starts with 6561,
\* has at most max_new_tokens + 1 entries and holds 6562 as its last entry
\* only; and once 6562 is sampled no further embedding or language-model
\* step is run
C20_LoopTerminates ==
    /\ [](gen.generatedTokens # <<>> =>
            LET g == gen.generatedTokens IN
            /\ g[1] = 6561
            /\ Len(g) <= gen.maxNewTokens + 1
            /\ gen.lmRuns <= gen.maxNewTokens
            /\ Len(g) <= gen.lmRuns + 1
            /\ \A i \in 1..(Len(g) - 1) : g[i] # 6562
            /\ g[Len(g)] = 6562 =>
                 /\ gen.pc # "loop"
                 /\ gen.lmRuns = Len(g) - 1
                 /\ gen.embedRuns = gen.lmRuns)
    /\ (gen.pc = "loop" ~> gen.pc # "loop")

\* a call has left the loop on a stop token before max_new_tokens steps
C20_Witness ==
    /\ gen.pc = "decode"
    /\ gen.generatedTokens[Len(gen.generatedTokens)] = 6562
    /\ Len(gen.generatedTokens) >= 3
    /\ gen.lmRuns < gen.maxNewTokens

\* C21: at the n-th run of the language model in a call (step n - 1), with
\* L = S_c + S_t at step 0 and 1 afterwards and P the sum of L over the steps
\* before, position_ids is P, ..., P + L - 1 and the attention mask is
\* P + L ones; after step 0 the mask is one longer than at the step before
C21_StepBookkeeping ==
    \A n \in 1..Len(gen.positionIds) :
        LET shape == gen.before.m_conds.condEmbShape
            Sc == IF Len(shape) >= 2 THEN shape[2] ELSE 0
            St == Len(gen.tokenIds)
            L == IF n = 1 THEN Sc + St ELSE 1
            P == IF n = 1 THEN 0 ELSE Sc + St + (n - 2)
        IN  /\ Len(gen.attentionMask) = Len(gen.positionIds)
            /\ Len(gen.positionIds[n]) = L
            /\ \A i \in 1..L : gen.positionIds[n][i] = P + i - 1
            /\ Len(gen.attentionMask[n]) = P + L
            /\ \A i \in 1..(P + L) : gen.attentionMask[n][i] = 1
            /\ n > 1 => Len(gen.attentionMask[n]) = Len(gen.attentionMask[n - 1]) + 1

\* the language model has run three times on conditionals whose cond_emb has
\* a sequence axis
C21_Witness ==
    /\ Len(gen.positionIds) >= 3
    /\ Len(gen.before.m_conds.condEmbShape) >= 2
    /\ gen.positionIds[3] = <<Len(gen.positionIds[1]) + 1>>

\* C22: the repetition penalty changes exactly the logits of the tokens that
\* appear in the history, each of them once - multiplied by the penalty if
\* negative, divided by it otherwise - however often the token occurs; every
\* other logit is unchanged and a penalty of 1 changes nothing.
C22_PenaltyOncePerToken ==
    samp.pc = "penalty" =>
        \A t \in 0..(VocabSize - 1) :
            samp.logits[t + 1] =
                IF samp.penalty # 1
                   /\ \E i \in 1..Len(samp.generatedTokens) : samp.generatedTokens[i] = t
                THEN IF samp.before[t + 1] < 0 THEN samp.before[t + 1] * samp.penalty
                     ELSE samp.before[t + 1] \div samp.penalty
                ELSE samp.before[t + 1]

\* the indices whose logit is not -infinity after the filter
Survivors == {i \in 1..Len(samp.logits) : samp.logits[i] # NegInf}

\* v is the k-th largest value of logits: fewer than k entries lie above it
\* and at least k entries are not below it
IsKthLargest(logits, k, v) ==
    /\ \E i \in 1..Len(logits) : logits[i] = v
    /\ Cardinality({i \in 1..Len(logits) : logits[i] > v}) < k
    /\ Cardinality({i \in 1..Len(logits) : logits[i] >= v}) >= k

\* the top-k filter without its last sentence: below the k-th largest value
\* theta everything is -infinity, from theta upwards nothing changes, at
\* least k entries survive, and k <= 0 or k >= V changes nothing
TopKCutsBelowTheta ==
    samp.pc = "topk" =>
        IF 0 < samp.k /\ samp.k < Len(samp.before)
        THEN /\ \E theta \in LogitValues :
                  /\ IsKthLargest(samp.before, samp.k, theta)
                  /\ \A i \in 1..Len(samp.before) :
                        samp.logits[i] = IF samp.before[i] < theta THEN NegInf
                                         ELSE samp.before[i]
             /\ Cardinality(Survivors) >= samp.k
        ELSE samp.logits = samp.before

\* C23 as stated: the top-k filter cuts exactly the entries below the k-th
\* largest value, keeps ties, changes nothing for k <= 0 or k >= V, and with
\* k = 1 leaves a single index, the argmax.
C23_TopKOneLeavesArgmaxOnly ==
    /\ TopKCutsBelowTheta
    /\ (samp.pc = "topk" /\ samp.k = 1 /\ samp.k < Len(samp.before))
          => /\ Cardinality(Survivors) = 1
             /\ \A i \in Survivors : \A j \in 1..Len(samp.before) :
                   samp.before[i] >= samp.before[j]

\* C23, amended: the top-k filter cuts exactly the entries below the k-th
\* largest value, keeps ties, changes nothing for k <= 0 or k >= V, and with
\* k = 1 leaves exactly the indices that hold the maximum - one index only
\* when the maximum is not tied.
C23_TopKOneLeavesMaxima ==
    /\ TopKCutsBelowTheta
    /\ (samp.pc = "topk" /\ samp.k = 1 /\ samp.k < Len(samp.before))
          => Survivors = {i \in 1..Len(samp.before) :
                             \A j \in 1..Len(samp.before) :
                                 samp.before[i] >= samp.before[j]}

\* top-k with k = 1 on a vector whose maximum is tied: two survive, one is cut
C23_Witness ==
    /\ samp.pc = "topk"
    /\ samp.k = 1
    /\ Cardinality(Survivors) = 2
    /\ \E i \in 1..Len(samp.logits) : samp.logits[i] = NegInf /\ samp.before[i] # NegInf

\* C24: for p < 1 the top-p filter leaves exactly the shortest prefix, in an
\* order of descending probability, whose cumulative softmax probability
\* exceeds p - the crossing element included - and sets every other index to
\* -infinity; the first index of that order always survives, and p >= 1
\* changes nothing.
C24_TopPShortestPrefix ==
    samp.pc = "topp" =>
        IF samp.pNum >= ProbUnit THEN samp.logits = samp.before
        ELSE \E order \in SortedDescending(samp.before) :
                \E n \in 1..Len(samp.before) :
                   /\ Exceeds(samp.before, order, n, samp.pNum)
                   /\ \A m \in 1..(n - 1) : ~Exceeds(samp.before, order, m, samp.pNum)
                   /\ Survivors = {order[j] : j \in 1..n}
                   /\ \A i \in Survivors : samp.logits[i] = samp.before[i]
                   /\ order[1] \in Survivors

\* top-p with 0 < p < 1 where the second element crosses p: two survive and
\* a finite entry is cut
C24_Witness ==
    /\ samp.pc = "topp"
    /\ samp.pNum \in 1..(ProbUnit - 1)
    /\ Cardinality(Survivors) = 2
    /\ \E i \in 1..Len(samp.logits) : samp.logits[i] = NegInf /\ samp.before[i] # NegInf

\* C25: ResolveVoice consults memory, then disk, then the reference file, in
\* that order; the speech encoder runs only in a state where Get(key) misses
\* and the blob of key is absent or has just failed to load; on a memory or
\* disk hit the engine's conditionals are the cached record and no encoder
\* ran; after a successful encoder run the new conditionals are Put under
\* ExtractKey(voicePath).
C25_ReadPathOrder ==
    /\ [](/\ \A i \in 1..Len(rv.tiers) : rv.tiers[i] = <<"memory", "disk", "file">>[i]
          /\ (rv.pc = "done" /\ rv.set # None /\ rv.later = 0 /\ gen = NoGen)
                => /\ m_conds = rv.set
                   /\ m_cache[rv.key] = rv.set
                   /\ elast.op = "SetConditionals"
                   /\ ~rv.encoderRan
          /\ (rv.pc = "done" /\ rv.encoderRan /\ rv.later = 0 /\ gen = NoGen
                /\ elast.op = "PrepareConditionals" /\ elast.ret)
                => /\ last.op = "Put"
                   /\ last.key = ExtractKey(rv.voicePath)
                   /\ last.conds = m_conds)
    /\ [][(elast' # elast /\ elast'.op = "PrepareConditionals")
            => /\ rv.tiers = <<"memory", "disk">>
               /\ Get(rv.key) = None
               /\ \/ ~ExistsOnDisk(rv.key)
                  \/ last.op = "LoadFromDisk" /\ last.key = rv.key /\ ~last.ret]_vars

\* the blob of the key was on disk and failed to load, the encoder ran on the
\* reference file and its conditionals were Put
C25_Witness ==
    /\ rv.pc = "done"
    /\ rv.tiers = <<"memory", "disk", "file">>
    /\ rv.onDisk /\ ~rv.loaded
    /\ rv.encoderRan
    /\ rv.ret = TRUE
    /\ last.op = "Put"
    /\ m_cache[rv.key] = EncodedConds

\* C26: IsReady() is true exactly when the most recent LoadModels call
\* returned true, readiness changes at no other call, and whenever the engine
\* is ready all four sessions of the loaded variant are in the session
\* manager; a LoadModels call that fails after an earlier success leaves the
\* engine not ready, and the only sessions left are those the failed call
\* itself loaded - none of the earlier load.
C26_ReadyIffLastLoadSucceeded ==
    /\ [](/\ IsReady => \A n \in ModelNames : m_sessions[n] = GetModelFilename(n, m_dtype)
          /\ elast.op = "LoadModels" => (IsReady <=> elast.ret)
          /\ elast = NoEngineCall /\ gen = NoGen => ~IsReady)
    /\ [][IF elast' # elast /\ elast'.op = "LoadModels"
          THEN /\ IsReady' <=> elast'.ret
               /\ ~elast'.ret =>
                     \A n \in ModelNames :
                        \/ m_sessions'[n] = NoSession
                        \/ /\ m_sessions'[n] = GetModelFilename(n, elast'.dtype)
                           /\ n # COND_DECODER
          ELSE IsReady' <=> IsReady]_vars

\* after a successful load of one variant, a load of the other variant threw
\* at its third model: not ready, two sessions of the new variant, none of
\* the old
C26_Witness ==
    /\ elast.op = "LoadModels"
    /\ elast.ready /\ ~elast.ret /\ elast.threw
    /\ elast.dtype # m_dtype
    /\ ~IsReady
    /\ m_sessions[SPEECH_ENCODER] = GetModelFilename(SPEECH_ENCODER, elast.dtype)
    /\ m_sessions[LANGUAGE_MODEL] = NoSession

\* C27: once ResolveVoice has given the engine a record from the cache with
\* SetConditionals(*cache.Get(k)), GetConditionals() stays equal to that
\* record whatever Put, LoadFromDisk, Remove, Clear or ClearMemory do to the
\* cache afterwards, and no step of Generate changes the cache, its files or
\* the engine's conditionals.
C27_EngineKeepsItsCopy ==
    /\ []((rv.pc = "done" /\ rv.set # None) => m_conds = rv.set)
    /\ [][gen' # gen => UNCHANGED <<m_cache, dirExists, disk, m_conds>>]_vars

\* the engine was given the cached record of the key, the entry was then
\* replaced or removed in the cache, and Generate ran through the decoder
C27_Witness ==
    /\ rv.pc = "done"
    /\ rv.set # None
    /\ rv.later > 0
    /\ m_cache[rv.key] # rv.set
    /\ gen.decoderRuns > 0
    /\ m_conds = rv.set

\* C28: every call of DownloadFileAsync has its callback invoked exactly once
\* by the time the call or its PerformDownload has ended, never more than
\* once, and never while its download id is still in the active-download
\* list, so that GetActiveDownloadCount() is 0 once every download has
\* completed.
C28_CallbackOnceAfterRemoval ==
    /\ \A c \in Calls :
          /\ dm.operation[c].callbacks <= 1
          /\ dm.operation[c].pc = "done" =>
                /\ dm.operation[c].callbacks = 1
                /\ ~dm.operation[c].activeAtCallback
    /\ (\A c \in Calls : dm.operation[c].pc \in {"none", "done"})
          => GetActiveDownloadCount = 0

\* C29: a target path only ever comes to name a file by the rename of a
\* completely transferred temp file, so a file that a download put at a
\* target path is complete; and a PerformDownload whose transfer fails, is
\* cancelled, or whose rename fails reports success = false, leaves the
\* target path and the file it names as they were, and leaves no temp file.
C29_AtomicPublication ==
    /\ [](\A t \in TargetPaths :
             dm.target[t].tag = "file" => dm.content[dm.target[t].of] = "complete")
    /\ [][\A c \in Calls :
             LET t == dm.operation[c].targetPath
             IN  (dm.operation[c].pc = "transfer" /\ dm'.operation[c].pc = "done"
                     /\ ~dm'.operation[c].success)
                    => /\ dm'.target = dm.target
                       /\ dm.target[t].tag = "file"
                             => dm'.content[dm.target[t].of] = dm.content[dm.target[t].of]
                       /\ dm'.temp[t] = NoEntry]_vars

\* C30: whenever DownloadWithCurl (alone or under DownloadIfNotExists)
\* returns false, no file is at localPath, so DownloadIfNotExists returns
\* true for a path only if the file there was present from the start or was
\* downloaded completely.
C30_FailedDownloadLeavesNoFile ==
    /\ (md.last.downloaded /\ ~md.last.ret /\ ~md.last.threw)
          => md.file[md.last.localPath] = "absent"
    /\ (md.last.op = "DownloadIfNotExists" /\ md.last.ret)
          => md.file[md.last.localPath] \in {"present", "complete"}

====
